---- MODULE Spec2Model ----
(***************************************************************************)
(* Model of clink's completion/suggestion concurrency core:                *)
(*   - the generation-tagged suggestion toolkit (suggester::suggest,       *)
(*     get_deferred_matches, reset_suggester),                             *)
(*   - the background command recognizer (class recognizer and its worker  *)
(*     thread recognizer::proc).                                           *)
(* Each component has its own next-state relation and specification; the   *)
(* variables of the other components stay at their initial values.         *)
(***************************************************************************)
EXTENDS Integers, Sequences, FiniteSets, TLC

(***************************************************************************)
(* Bounds of the model.                                                    *)
(***************************************************************************)
\* Number of suggest() requests the host begins.
MaxGen == 4
\* Capacity of one arena page, in model units (a page header and a key each
\* take one unit); stands for the page size passed to m_heap.
HeapPageSize == 3
\* Milliseconds the clock advances per Tick while end_line() runs.
TickMs == 1250
\* get_timeout() calls followed between two reset() calls.
MaxIterations == 3
\* Number of distinct event handle values the system hands out.
MaxEvents == 3
\* Number of distinct FILE* values the C runtime hands out.
MaxFiles == 4
\* Children spawned by io.popenrw and io.popenyield together.
MaxChildren == 2
\* Bytes a child writes to its standard output.
MaxOut == 3
\* Children spawned where the relayed bytes are followed.
MaxRelayChildren == 1
\* Length of the input line whose characters are coloured.
LineLength == 3
\* applycolor calls followed from one initial state.
MaxColorCalls == 3
\* applycolor calls followed on a line that finish() is called on.
MaxFinishColors == 2
\* Bytes the relay thread reads at once (sizeof m_buffer, scaled down).
BufSize == 2

(***************************************************************************)
(* Program constants.                                                      *)
(***************************************************************************)
\* end_line(): int(tick_begin) + 2500 - int(tick_now)
EndLineBudgetMs == 2500
\* ' ', the face of a position that has not been coloured.
Blank == 32
\* ensure_face(): the first face is char(128).
FirstFace == 128
\* Number of values of 'char'.
CharRange == 256
\* Number of faces from char(128) to char(255).
FaceLimit == 128
\* 'm', the face finish() gives to a command that has an argmatcher.
ArgmatcherFace == 109
\* errno after map_errno() has mapped an error of the system: not 0.
MappedErrno == 1

VARIABLES
    \* ---- suggester (part_001) ----
    s_toolkit,          \* the active toolkit (shared_ptr): NoToolkit or [generation_id]
    generation,         \* generation id of the most recently begun request
    deferred,           \* generation ids whose deferred computation is still running
    got,                \* outcome of the last get_deferred_matches call
    req,                \* arguments of the last suggest() call
    \* ---- ownership of the toolkits, followed in SpecToolkit only ----
    holders,            \* per generation id: Lua objects holding that toolkit
    alive,              \* generation ids of the toolkits not yet destroyed
    \* ---- recognizer (part_002) ----
    m_heap,             \* linear_allocator: [m_ptr, m_used]
    m_cache,            \* confirmed map: key -> classification
    m_pending,          \* pending map: key -> provisional classification
    m_queue,            \* single work slot: [m_key, m_word]
    m_thread,           \* TRUE iff m_thread holds a thread object
    m_event,            \* work event handle: "null", "open", "closed"
    m_event_signalled,  \* state of the auto-reset work event
    s_ready_event,      \* TRUE iff the ready event was created
    ready_signalled,    \* state of the manual-reset ready event
    m_processing,
    m_result_available,
    m_zombie,
    pc_main,            \* position of the main thread in end_line()/shutdown()
    elapsed,            \* GetTickCount() - tick_begin while end_line() runs
    wait_until,         \* elapsed time at which the ready-event wait expires
    sd_thread,          \* shutdown()'s local 'thread' (moved from m_thread)
    pc_worker,          \* position of the worker thread in proc()
    entry,              \* proc()'s local 'entry'
    last,               \* the recognizer call that produced this state, if any
    \* ---- the recognizer's mutex, followed in SpecLock only ----
    m_mutex,            \* owner of the recursive mutex: "none", "main", "worker"
    lk_main,            \* the locked function the main thread is in, or "out"
    lk_worker,          \* the locked block the worker is in, or "out"
    \* ---- idle driver (lua_input_idle.cpp) ----
    s_idle,             \* TRUE iff s_idle points to the driver
    m_enabled,
    m_iterations,
    m_idle_event,       \* lua_input_idle::m_event: 0 or an event handle
    yield_wake_event,   \* the handle published by set_yield_wake_event
    open_events,        \* event handles created and not closed
    coroutines,         \* what clink._has_coroutines answers: "yes", "no", "error"
    wait_duration,      \* what clink._wait_duration answers
    idle_last,          \* the idle driver call that produced this state, if any
    reset_pc,           \* 0, or 1 while reset() is between its two halves
    old_event,          \* reset()'s local 'old_event'
    wake_signalled,     \* state of the auto-reset wake event m_event
    idle_wait,          \* the timeout the input loop waits with, or NoWait
    \* ---- io.popenrw / io.popenyield (part_000) ----
    s_head,             \* the list of popenrw_info, head first
    files_open,         \* FILE* values that are open streams
    handles_open,       \* number of open pipe and file handles held by clink
    proc_handles,       \* children whose process handle is open
    lua_streams,        \* FILE* of the Lua streams whose closef is pclosefile
    procs,              \* per child: its state, exit status and output
    pipes,              \* per child: bytes in its stdout pipe
    spool,              \* per child: contents of the temporary file
    relays,             \* per child: its popen_buffering thread
    pc_lua,             \* 0, or the child pclosewait() is waiting for
    spawned,            \* number of children created
    popen_last,         \* the io call that produced this state, if any
    h_cleanups,         \* per child: times its association was removed and deleted
    \* ---- word_classifications and its Lua binding ----
    m_info,             \* the words: start, end, word_class, argmatcher
    wc_last,            \* the classifyword call that produced this state, if any
    m_faces,            \* one char per position of the line, as its code
    m_length,
    m_face_definitions, \* the SGR strings, in the order of their faces
    m_face_map,         \* std::map from SGR string to face
    color_calls,        \* applycolor calls followed so far
    color_last,         \* the applycolor call that produced this state, if any
    finish_last,        \* the finish() call that produced this state, if any
    \* ---- os.cpp: s_mpr and os::get_net_connection_name ----
    m_initialized,      \* s_mpr.init() has run
    m_ok,
    m_hlib,             \* mpr.dll is loaded
    m_procs,            \* s_mpr.m_procs.WNetGetConnectionW, or NullProc
    os_errno,           \* errno of the calling thread
    net_out,            \* the caller's output string
    net_last,           \* the get_net_connection_name call that produced this
                        \* state, if any
    net_crashed,        \* the process has ended in a fault
    \* ---- history variables (observers, never read by the program) ----
    h_slot,             \* per key: fate of its latest request in the work slot
    h_cleared,          \* keys cached at the last clear() and not enqueued since
    h_quiet,            \* h_cleared minus the keys the worker held at that clear()
    h_disturbed,        \* a clear()/shutdown() ran since the worker's last dequeue
    h_confirmed,        \* keys that were in the confirmed map when shutdown() ran
    h_inflight,         \* the worker was resolving a request when shutdown() ran
    h_actor,            \* the thread that took the last step
    h_access,           \* the last step read or wrote a map, the slot or the arena
    h_ids,              \* generation ids suggest() has been called with
    h_raised,           \* a store or a notification raised 'result available'
                        \* since the last need_refresh()
    h_stored            \* keys copied into the arena since its last reset

vars_suggest == <<s_toolkit, generation, deferred, got, req>>
vars_recognizer == <<m_heap, m_cache, m_pending, m_queue, m_thread, m_event,
                     m_event_signalled, s_ready_event, ready_signalled,
                     m_processing, m_result_available, m_zombie, pc_main,
                     elapsed, wait_until, sd_thread, pc_worker, entry, last>>
vars_toolkit == <<holders, alive>>
vars_lock == <<m_mutex, lk_main, lk_worker>>
vars_history == <<h_slot, h_cleared, h_quiet, h_disturbed, h_confirmed,
                  h_inflight, h_actor, h_access, h_ids>>
vars_core == <<vars_suggest, vars_toolkit, vars_recognizer, vars_lock,
               vars_history>>
vars_idle == <<s_idle, m_enabled, m_iterations, m_idle_event, yield_wake_event,
               open_events, coroutines, wait_duration, idle_last, reset_pc,
               old_event, wake_signalled, idle_wait>>
\* The components that have a specification of their own further down.
vars_popen == <<s_head, files_open, handles_open, proc_handles, lua_streams,
                procs, pipes, spool, relays, pc_lua, spawned, popen_last,
                h_cleanups>>
vars_words == <<m_info, wc_last>>
vars_faces == <<m_faces, m_length, m_face_definitions, m_face_map, color_calls,
                color_last>>
vars_finish == <<finish_last>>
vars_mpr == <<m_initialized, m_ok, m_hlib, m_procs, os_errno, net_out, net_last,
              net_crashed>>
\* The observers that SpecWhole alone follows.
vars_watch == <<h_raised, h_stored>>
vars_rest == <<vars_idle, vars_popen, vars_words, vars_faces, vars_finish,
               vars_mpr, vars_watch>>
vars == <<vars_core, vars_rest>>

(***************************************************************************)
(* Suggester.                                                              *)
(***************************************************************************)
NoToolkit == [generation_id |-> 0]

\* Faulty variant: the toolkit is tagged with the id of the request before.
make_match_builder_toolkit_stale(generation_id) == [generation_id |-> generation]

\* make_match_builder_toolkit(generation_id, ...)
make_match_builder_toolkit(generation_id) == [generation_id |-> generation_id]

\* match_builder_toolkit* get_deferred_matches(int generation_id)
get_deferred_matches_unchecked(generation_id) == s_toolkit

get_deferred_matches(generation_id) ==
    IF s_toolkit # NoToolkit /\ s_toolkit.generation_id = generation_id
    THEN s_toolkit
    ELSE NoToolkit

\* The host allocates the id of a new request: a monotonic increment.
NextGenerationId == generation + 1

\* Faulty variant: suggest() resets s_toolkit only where it makes a new one.
SuggestToolkit_without_reset(line_length, has_matches, generation_id) ==
    IF line_length = 0 \/ has_matches
    THEN s_toolkit
    ELSE make_match_builder_toolkit(generation_id)

\* s_toolkit after suggester::suggest(line, matches, generation_id)
SuggestToolkit(line_length, has_matches, generation_id) ==
    IF line_length = 0 \/ has_matches
    THEN NoToolkit
    ELSE make_match_builder_toolkit(generation_id)

\* bool suggester::suggest(line_state& line, matches* matches, int generation_id)
\* The Lua side starts a coroutine holding the toolkit only when no matches
\* were supplied.
Suggest(line_length, has_matches) ==
    /\ generation < MaxGen
    /\ generation' = NextGenerationId
    /\ s_toolkit' = SuggestToolkit(line_length, has_matches, NextGenerationId)
    /\ deferred' = IF line_length = 0 \/ has_matches
                   THEN deferred
                   ELSE deferred \cup {NextGenerationId}
    /\ got' = [gen |-> 0, current |-> 0, toolkit |-> NoToolkit]
    /\ req' = [line_length |-> line_length, has_matches |-> has_matches]

\* void reset_suggester()
ResetSuggester ==
    /\ s_toolkit' = NoToolkit
    /\ got' = [gen |-> 0, current |-> 0, toolkit |-> NoToolkit]
    /\ UNCHANGED <<generation, deferred, req>>

\* A deferred computation begun under generation id g completes and asks for
\* the toolkit: get_deferred_matches(g).
DeferredComplete(g) ==
    /\ g \in deferred
    /\ got' = [gen |-> g, current |-> generation,
               toolkit |-> get_deferred_matches(g)]
    /\ deferred' = deferred \ {g}
    /\ UNCHANGED <<s_toolkit, generation, req>>

InitSuggest ==
    /\ s_toolkit = NoToolkit
    /\ generation = 0
    /\ deferred = {}
    /\ got = [gen |-> 0, current |-> 0, toolkit |-> NoToolkit]
    /\ req = [line_length |-> 0, has_matches |-> FALSE]

NextSuggest ==
    \/ \E line_length \in {0, 1}, has_matches \in BOOLEAN :
           Suggest(line_length, has_matches)
    \/ ResetSuggester
    \/ \E g \in 1..MaxGen : DeferredComplete(g)

(***************************************************************************)
(* Ownership of the toolkits: s_toolkit is a std::shared_ptr, and the Lua  *)
(* objects suggest() makes for the coroutine hold copies of it.            *)
(***************************************************************************)
\* matches_lua::make_new(state, s_toolkit) and
\* match_builder_lua::make_new(state, s_toolkit): two Lua objects.
LuaHolders == 2

\* Each object made by lua_bindable<T>::make_new(state, s_toolkit) keeps the
\* std::shared_ptr it was constructed from until Lua collects it.
lua_holds_toolkit(held, generation_id) ==
    [held EXCEPT ![generation_id] = LuaHolders]

\* shared_ptr::use_count() of toolkit g, s_toolkit being tk.
use_count(g, tk, held) ==
    (IF tk # NoToolkit /\ tk.generation_id = g THEN 1 ELSE 0) + held[g]

\* Faulty variant: giving up a reference deletes the toolkit, whoever else
\* holds it (an owning raw pointer instead of a shared_ptr).
shared_ptr_release_deleting(g, live, remaining) == live \ {g}

\* A std::shared_ptr gives up toolkit g (reset() or destructor): the toolkit
\* is destroyed when no reference remains.
shared_ptr_release(g, live, remaining) ==
    IF remaining = 0 THEN live \ {g} ELSE live

\* s_toolkit.reset(): the toolkits alive afterwards.
reset_toolkit(live) ==
    IF s_toolkit = NoToolkit THEN live
    ELSE shared_ptr_release(s_toolkit.generation_id, live,
                            holders[s_toolkit.generation_id])

\* suggest() with the toolkits' ownership.
SuggestOwned(line_length, has_matches) ==
    /\ Suggest(line_length, has_matches)
    /\ IF line_length = 0 \/ has_matches
       THEN /\ alive' = reset_toolkit(alive)
            /\ UNCHANGED holders
       ELSE /\ alive' = reset_toolkit(alive) \cup {NextGenerationId}
            /\ holders' = lua_holds_toolkit(holders, NextGenerationId)

\* reset_suggester() with the toolkits' ownership.
ResetSuggesterOwned ==
    /\ ResetSuggester
    /\ alive' = reset_toolkit(alive)
    /\ UNCHANGED holders

\* lua_bindable<T>::__gc: Lua collects one of the objects holding toolkit g
\* and deletes it, which releases its shared_ptr.
LuaGc(g) ==
    /\ holders[g] > 0
    /\ holders' = [holders EXCEPT ![g] = @ - 1]
    /\ alive' = shared_ptr_release(g, alive, use_count(g, s_toolkit, holders) - 1)
    /\ UNCHANGED vars_suggest

InitToolkit ==
    /\ holders = [g \in 1..MaxGen |-> 0]
    /\ alive = {}

NextToolkit ==
    \/ \E line_length \in {0, 1}, has_matches \in BOOLEAN :
           SuggestOwned(line_length, has_matches)
    \/ ResetSuggesterOwned
    \/ \E g \in 1..MaxGen : DeferredComplete(g) /\ UNCHANGED vars_toolkit
    \/ \E g \in 1..MaxGen : LuaGc(g)

(***************************************************************************)
(* Recognizer: environment of the resolver.                                *)
(***************************************************************************)
\* The words typed on the line (the keys of the maps): an environment
\* variable naming a program on PATH, a file name whose extension has no
\* open command, and a name that is no file at all.
Keys == {"%cmd%", "doc.zzz", "nofile"}
\* The words typed while end_line() is followed.
EndLineKeys == {"nofile"}

\* os::expand_env on the model's words: %cmd% is an environment variable
\* whose value is "prog"; the other words contain no variable reference.
ExpandEnv(word) == IF word = "%cmd%" THEN "prog" ELSE word

\* search_for_executable(word): "prog" is found on PATH with a PATHEXT suffix.
search_for_executable(word) == word = "prog"

\* path::get_extension(word): "" stands for nullptr.
get_extension(word) ==
    CASE word = "doc.txt" -> ".txt"
      [] word = "doc.zzz" -> ".zzz"
      [] OTHER -> ""

\* RegOpenKeyExW/RegQueryValueExW of <ext>\shell\open\command: only .txt has
\* an open command.
has_command(ext) == ext = ".txt"

(***************************************************************************)
(* Recognizer: maps, work slot and arena.                                  *)
(***************************************************************************)
EmptyMap == [k \in {} |-> 0]
MapAssign(map, key, value) ==
    [k \in (DOMAIN map) \cup {key} |-> IF k = key THEN value ELSE map[k]]

\* recognizer::entry: empty() is m_key.empty()
EmptyEntry == [m_key |-> "", m_word |-> ""]
MakeEntry(key, word) == [m_key |-> key, m_word |-> word]

\* linear_allocator(size): m_used(size), m_max(size), no page yet.
NewHeap == [m_ptr |-> FALSE, m_used |-> HeapPageSize]

\* linear_allocator::alloc for one key (never size 0, never oversized):
\* a new page is needed when the key does not fit, and malloc may fail.
HeapAlloc(heap, malloc_ok) ==
    IF heap.m_used + 1 <= HeapPageSize
    THEN [ok |-> TRUE, heap |-> [heap EXCEPT !.m_used = @ + 1]]
    ELSE IF ~malloc_ok
    THEN [ok |-> FALSE, heap |-> heap]
    ELSE [ok |-> TRUE, heap |-> [m_ptr |-> TRUE, m_used |-> 2]]

\* linear_allocator::reset(): free_chain(keep_one = true)
HeapReset(heap) ==
    [m_ptr |-> heap.m_ptr,
     m_used |-> IF heap.m_ptr THEN 1 ELSE HeapPageSize]

\* Faulty variant: usable() forgets the zombie flag.
usable_ignoring_zombie == s_ready_event

\* bool recognizer::usable() const
usable == ~m_zombie /\ s_ready_event

\* Faulty variant: lowering the flag is reported but not done.
set_result_available_sticky(available, ra, rs) ==
    IF available = ra
    THEN [ret |-> available, ra |-> ra, rs |-> rs]
    ELSE [ret |-> ~available, ra |-> TRUE, rs |-> IF s_ready_event THEN TRUE ELSE rs]

\* bool recognizer::set_result_available(bool available), on the pair
\* (m_result_available, state of the ready event).
set_result_available(available, ra, rs) ==
    IF available = ra
    THEN [ret |-> available, ra |-> ra, rs |-> rs]
    ELSE [ret |-> ~available, ra |-> available,
          rs |-> IF s_ready_event THEN available ELSE rs]

\* Faulty variant: notify_ready() does not set the ready event itself.
notify_ready_without_signal(available, ra, rs) ==
    LET a == IF available THEN set_result_available(available, ra, rs)
             ELSE [ret |-> FALSE, ra |-> ra, rs |-> rs]
    IN  [ra |-> a.ra, rs |-> a.rs]

\* void recognizer::notify_ready(bool available)
notify_ready(available, ra, rs) ==
    LET a == IF available THEN set_result_available(available, ra, rs)
             ELSE [ret |-> FALSE, ra |-> ra, rs |-> rs]
    IN  [ra |-> a.ra, rs |-> IF s_ready_event THEN TRUE ELSE a.rs]

\* Faulty variant: find() looks into the pending map first.
find_pending_first(key) ==
    IF usable /\ key \in DOMAIN m_pending
    THEN [found |-> TRUE, cached |-> m_pending[key]]
    ELSE IF usable /\ key \in DOMAIN m_cache
    THEN [found |-> TRUE, cached |-> m_cache[key]]
    ELSE [found |-> FALSE, cached |-> 0]

\* bool recognizer::find(const char* key, char* cached) const
find(key) ==
    IF usable /\ key \in DOMAIN m_cache
    THEN [found |-> TRUE, cached |-> m_cache[key]]
    ELSE IF usable /\ key \in DOMAIN m_pending
    THEN [found |-> TRUE, cached |-> m_pending[key]]
    ELSE [found |-> FALSE, cached |-> 0]

\* bool recognizer::store(const char* word, char cached, bool pending),
\* applied to the given maps and arena; is_usable is what usable() returns.
store_body(word, cached, pending, cache, pend, heap, ra, rs, malloc_ok, is_usable) ==
    LET map == IF pending THEN pend ELSE cache
        fresh == HeapAlloc(heap, malloc_ok)
        sig == set_result_available(TRUE, ra, rs)
        done(newmap, newheap) ==
            [ok |-> TRUE,
             cache |-> IF pending THEN cache ELSE newmap,
             pend |-> IF pending THEN newmap ELSE pend,
             heap |-> newheap, ra |-> sig.ra, rs |-> sig.rs]
        failed == [ok |-> FALSE, cache |-> cache, pend |-> pend,
                   heap |-> heap, ra |-> ra, rs |-> rs]
    IN  IF ~is_usable THEN failed
        ELSE IF word \in DOMAIN map
        THEN done(MapAssign(map, word, cached), heap)
        ELSE IF ~fresh.ok THEN failed
        ELSE done(MapAssign(map, word, cached), fresh.heap)

\* Faulty variant: store() ignores 'pending' and always writes the confirmed map.
store_ignoring_pending(word, cached, pending, cache, pend, heap, ra, rs, malloc_ok) ==
    store_body(word, cached, FALSE, cache, pend, heap, ra, rs, malloc_ok, usable)

\* Faulty variant: store() does not ask usable().
store_when_unusable(word, cached, pending, cache, pend, heap, ra, rs, malloc_ok) ==
    store_body(word, cached, pending, cache, pend, heap, ra, rs, malloc_ok, TRUE)

store(word, cached, pending, cache, pend, heap, ra, rs, malloc_ok) ==
    store_body(word, cached, pending, cache, pend, heap, ra, rs, malloc_ok, usable)

\* Faulty variant: clear() leaves the confirmed map alone.
clear_keeping_cache(cache, pend, heap) ==
    [cache |-> cache, pend |-> EmptyMap, heap |-> HeapReset(heap)]

\* Faulty variant: clear() resets the arena over a pending map it keeps.
clear_keeping_pending(cache, pend, heap) ==
    [cache |-> EmptyMap, pend |-> pend, heap |-> HeapReset(heap)]

\* void recognizer::clear(): m_cache.clear(); m_pending.clear(); m_heap.reset()
clear(cache, pend, heap) ==
    [cache |-> EmptyMap, pend |-> EmptyMap, heap |-> HeapReset(heap)]

\* Faulty variant: the worker keeps the pending map when the slot is empty.
drain_keeping_pending(pend) == pend

\* proc(): r->m_pending.clear() when the dequeue fails
drain_pending(pend) == EmptyMap

NoCall == [op |-> "none", key |-> "", ret |-> FALSE, cached |-> 0]
Call(op, key, ret, cached) ==
    [op |-> op, key |-> key, ret |-> ret, cached |-> cached]

\* Points of the main thread at which the host can call find/enqueue: between
\* calls, inside host_reclassify() during end_line(), and (from any thread of
\* the host, the calls being serialised by m_mutex) once shutdown() has begun.
CallPoints == {"idle", "el_reclassify", "el_final", "sd_join", "sd_close", "sd_done"}

(***************************************************************************)
(* Recognizer: calls made by the main thread.  Each call holds m_mutex     *)
(* from entry to return, so it is one step.                                *)
(***************************************************************************)
rec_main_unchanged == UNCHANGED <<pc_main, elapsed, wait_until, sd_thread>>
rec_worker_unchanged == UNCHANGED <<pc_worker, entry>>

\* bool recognizer::find(const char* key, char* cached) const
Find(key) ==
    /\ pc_main \in CallPoints
    /\ last' = Call("find", key, find(key).found, find(key).cached)
    /\ UNCHANGED <<m_heap, m_cache, m_pending, m_queue, m_thread, m_event,
                   m_event_signalled, s_ready_event, ready_signalled,
                   m_processing, m_result_available, m_zombie>>
    /\ rec_main_unchanged /\ rec_worker_unchanged

\* Faulty variant: enqueue() goes on when CreateEvent returns no handle.
enqueue_rejects_ignoring_event(event_ok) == ~usable

\* enqueue(): the two early 'return false', on !usable() and on a work event
\* that does not exist and cannot be created.
enqueue_rejects(event_ok) == ~usable \/ (m_event = "null" /\ ~event_ok)

\* enqueue(): m_event after 'if (!m_event) m_event = CreateEvent(...)'.
created_event(event_ok) ==
    IF m_event = "null" /\ ~event_ok THEN "null" ELSE "open"

\* bool recognizer::enqueue(const char* key, const char* word, char* cached)
\* event_ok: CreateEvent succeeds; thread_ok: std::thread starts (its
\* constructor throws otherwise); malloc_ok: malloc of an arena page succeeds.
\* on_reject, on_throw, on_accept: what the caller records for each outcome.
EnqueueCall(key, event_ok, thread_ok, malloc_ok, on_reject, on_throw, on_accept) ==
    /\ pc_main \in CallPoints
    /\ LET s == store(key, -1, TRUE, m_cache, m_pending, m_heap,
                      m_result_available, ready_signalled, malloc_ok)
       IN
       IF enqueue_rejects(event_ok)
       THEN /\ last' = on_reject
            /\ UNCHANGED <<m_heap, m_cache, m_pending, m_queue, m_thread,
                           m_event, m_event_signalled, ready_signalled,
                           m_result_available, pc_worker>>
       ELSE IF ~m_thread /\ ~thread_ok
       THEN /\ m_event' = created_event(event_ok)
            /\ last' = on_throw
            /\ UNCHANGED <<m_heap, m_cache, m_pending, m_queue, m_thread,
                           m_event_signalled, ready_signalled,
                           m_result_available, pc_worker>>
       ELSE /\ m_event' = created_event(event_ok)
            /\ m_thread' = TRUE
            /\ pc_worker' = IF m_thread THEN pc_worker ELSE "wait"
            /\ m_queue' = MakeEntry(key, ExpandEnv(key))
            /\ m_pending' = s.pend
            /\ m_cache' = s.cache
            /\ m_heap' = s.heap
            /\ m_result_available' = s.ra
            /\ ready_signalled' = s.rs
            /\ m_event_signalled' = TRUE
            /\ last' = on_accept
    /\ UNCHANGED <<s_ready_event, m_processing, m_zombie, entry>>
    /\ rec_main_unchanged

\* enqueue() called by the host directly: *cached is -1 when it returns true.
Enqueue(key, event_ok, thread_ok, malloc_ok) ==
    EnqueueCall(key, event_ok, thread_ok, malloc_ok,
                Call("enqueue", key, FALSE, 0),
                Call("enqueue_threw", key, FALSE, 0),
                Call("enqueue", key, TRUE, -1))

\* The words clink._recognize_command can be asked about: the keys, a word
\* with a wildcard, a UNC path, and a directory intercept.
Words == Keys \cup {"*.exe", "\\\\srv\\x", ".."}

\* path::is_separator(word[0]) && path::is_separator(word[1])
is_unc(word) == word = "\\\\srv\\x"

\* intercept_directory(line) != intercept_result::none, the line being the word
intercept_directory(word) == word = ".."

\* strchr(word, '*') || strchr(word, '?')
has_wildcard(word) == word = "*.exe"

\* The integers recognize_command pushes.
RcUnknown == 0
RcRecognized == 1
RcUnrecognized == -1

\* static int recognize_command(lua_State* state), for a non-empty line and
\* word; last.cached records the integer pushed.
RecognizeCommand(word, event_ok, thread_ok, malloc_ok) ==
    IF is_unc(word) \/ intercept_directory(word) \/ find(word).found
          \/ has_wildcard(ExpandEnv(word))
    THEN /\ pc_main \in CallPoints
         /\ last' = Call("recognize_command", word, TRUE,
                         IF is_unc(word) THEN RcUnknown
                         ELSE IF intercept_directory(word) THEN RcRecognized
                         ELSE IF find(word).found THEN find(word).cached
                         ELSE RcUnrecognized)
         /\ UNCHANGED <<m_heap, m_cache, m_pending, m_queue, m_thread, m_event,
                        m_event_signalled, s_ready_event, ready_signalled,
                        m_processing, m_result_available, m_zombie>>
         /\ rec_main_unchanged /\ rec_worker_unchanged
    ELSE EnqueueCall(word, event_ok, thread_ok, malloc_ok,
                     Call("recognize_command", word, TRUE, RcUnknown),
                     Call("recognize_command_threw", word, FALSE, 0),
                     Call("recognize_command", word, TRUE, -1))

\* void recognizer::clear()
Clear ==
    /\ pc_main = "idle"
    /\ m_cache' = clear(m_cache, m_pending, m_heap).cache
    /\ m_pending' = clear(m_cache, m_pending, m_heap).pend
    /\ m_heap' = clear(m_cache, m_pending, m_heap).heap
    /\ last' = Call("clear", "", TRUE, 0)
    /\ UNCHANGED <<m_queue, m_thread, m_event, m_event_signalled,
                   s_ready_event, ready_signalled, m_processing,
                   m_result_available, m_zombie>>
    /\ rec_main_unchanged /\ rec_worker_unchanged

\* bool recognizer::need_refresh()
NeedRefresh ==
    /\ pc_main \in {"idle", "el_reclassify", "el_final"}
    /\ LET r == set_result_available(FALSE, m_result_available, ready_signalled)
       IN  /\ m_result_available' = r.ra
           /\ ready_signalled' = r.rs
           /\ last' = Call("need_refresh", "", r.ret, 0)
    /\ UNCHANGED <<m_heap, m_cache, m_pending, m_queue, m_thread, m_event,
                   m_event_signalled, s_ready_event, m_processing, m_zombie>>
    /\ rec_main_unchanged /\ rec_worker_unchanged

(***************************************************************************)
(* void recognizer::end_line()                                             *)
(***************************************************************************)
rec_shared_unchanged ==
    UNCHANGED <<m_heap, m_cache, m_pending, m_queue, m_thread, m_event,
                m_event_signalled, s_ready_event, ready_signalled,
                m_processing, m_result_available, m_zombie>>

\* The locked block at entry: no ready event -> return at once; not
\* processing -> the final host_reclassify(); else tick_begin is taken.
EL_Enter ==
    /\ pc_main = "idle"
    /\ pc_main' = IF ~s_ready_event THEN "idle"
                  ELSE IF m_processing /\ ~m_zombie THEN "el_loop"
                  ELSE "el_final"
    /\ elapsed' = 0
    /\ last' = NoCall
    /\ UNCHANGED <<wait_until, sd_thread>>
    /\ rec_shared_unchanged /\ rec_worker_unchanged

\* Faulty variant: the loop never looks at the budget; the wait gets what is left of
\* it, or nothing.
EL_Loop_without_budget ==
    /\ pc_main = "el_loop"
    /\ pc_main' = "el_wait"
    /\ wait_until' = IF elapsed > EndLineBudgetMs THEN elapsed ELSE EndLineBudgetMs
    /\ last' = NoCall
    /\ UNCHANGED <<elapsed, sd_thread>>
    /\ rec_shared_unchanged /\ rec_worker_unchanged

\* Top of the wait loop: timeout = int(tick_begin) + 2500 - int(tick_now);
\* leave if it is negative, else start WaitForSingleObject(ready_event, timeout).
EL_Loop ==
    /\ pc_main = "el_loop"
    /\ LET timeout == EndLineBudgetMs - elapsed
       IN  IF timeout < 0
           THEN pc_main' = "el_final" /\ UNCHANGED wait_until
           ELSE pc_main' = "el_wait" /\ wait_until' = elapsed + timeout
    /\ last' = NoCall
    /\ UNCHANGED <<elapsed, sd_thread>>
    /\ rec_shared_unchanged /\ rec_worker_unchanged

\* WaitForSingleObject returns WAIT_OBJECT_0: the manual-reset event is set.
EL_WaitSignalled ==
    /\ pc_main = "el_wait"
    /\ ready_signalled
    /\ pc_main' = "el_reclassify"
    /\ last' = NoCall
    /\ UNCHANGED <<elapsed, wait_until, sd_thread>>
    /\ rec_shared_unchanged /\ rec_worker_unchanged

\* WaitForSingleObject returns WAIT_TIMEOUT.
EL_WaitTimeout ==
    /\ pc_main = "el_wait"
    /\ ~ready_signalled
    /\ elapsed >= wait_until
    /\ pc_main' = "el_final"
    /\ last' = NoCall
    /\ UNCHANGED <<elapsed, wait_until, sd_thread>>
    /\ rec_shared_unchanged /\ rec_worker_unchanged

\* WaitForSingleObject returns WAIT_FAILED.
EL_WaitFailed ==
    /\ pc_main = "el_wait"
    /\ pc_main' = "el_final"
    /\ last' = NoCall
    /\ UNCHANGED <<elapsed, wait_until, sd_thread>>
    /\ rec_shared_unchanged /\ rec_worker_unchanged

\* host_reclassify() has returned; the locked check at the loop's end.
EL_Check ==
    /\ pc_main = "el_reclassify"
    /\ pc_main' = IF ~m_processing \/ ~usable THEN "el_final" ELSE "el_loop"
    /\ last' = NoCall
    /\ UNCHANGED <<elapsed, wait_until, sd_thread>>
    /\ rec_shared_unchanged /\ rec_worker_unchanged

\* The final host_reclassify() has returned; end_line() returns.
EL_Return ==
    /\ pc_main = "el_final"
    /\ pc_main' = "idle"
    /\ elapsed' = 0
    /\ wait_until' = 0
    /\ last' = NoCall
    /\ UNCHANGED sd_thread
    /\ rec_shared_unchanged /\ rec_worker_unchanged

\* GetTickCount() advances while end_line() runs.
Tick ==
    /\ pc_main \in {"el_loop", "el_wait", "el_reclassify"}
    /\ elapsed <= EndLineBudgetMs
    /\ elapsed' = elapsed + TickMs
    /\ last' = NoCall
    /\ UNCHANGED <<pc_main, wait_until, sd_thread>>
    /\ rec_shared_unchanged /\ rec_worker_unchanged

(***************************************************************************)
(* void recognizer::shutdown()                                             *)
(***************************************************************************)
\* The locked block: clear(); m_zombie = true; SetEvent(m_event) if it
\* exists; thread = std::move(m_thread).
SD_Lock ==
    /\ pc_main = "idle"
    /\ m_cache' = clear(m_cache, m_pending, m_heap).cache
    /\ m_pending' = clear(m_cache, m_pending, m_heap).pend
    /\ m_heap' = clear(m_cache, m_pending, m_heap).heap
    /\ m_zombie' = TRUE
    /\ m_event_signalled' = IF m_event = "open" THEN TRUE ELSE m_event_signalled
    /\ sd_thread' = m_thread
    /\ m_thread' = FALSE
    /\ pc_main' = "sd_join"
    /\ last' = Call("shutdown", "", TRUE, 0)
    /\ UNCHANGED <<m_queue, m_event, s_ready_event, ready_signalled,
                   m_processing, m_result_available, elapsed, wait_until>>
    /\ rec_worker_unchanged

\* if (thread) thread->join();  join() returns once proc() has returned.
SD_Join ==
    /\ pc_main = "sd_join"
    /\ ~sd_thread \/ pc_worker = "exited"
    /\ pc_main' = "sd_close"
    /\ last' = NoCall
    /\ UNCHANGED <<elapsed, wait_until, sd_thread>>
    /\ rec_shared_unchanged /\ rec_worker_unchanged

\* if (m_event) CloseHandle(m_event);
SD_Close ==
    /\ pc_main = "sd_close"
    /\ m_event' = IF m_event = "open" THEN "closed" ELSE m_event
    /\ pc_main' = "sd_done"
    /\ last' = NoCall
    /\ UNCHANGED <<m_heap, m_cache, m_pending, m_queue, m_thread,
                   m_event_signalled, s_ready_event, ready_signalled,
                   m_processing, m_result_available, m_zombie,
                   elapsed, wait_until, sd_thread>>
    /\ rec_worker_unchanged

(***************************************************************************)
(* void recognizer::proc(recognizer* r): the worker thread.                *)
(***************************************************************************)
\* WaitForSingleObject(r->m_event, INFINITE) returns WAIT_OBJECT_0 and resets
\* the auto-reset event; 'entry entry;' is constructed empty.
W_Wake ==
    /\ pc_worker = "wait"
    /\ m_event_signalled
    /\ m_event_signalled' = FALSE
    /\ entry' = EmptyEntry
    /\ pc_worker' = "dequeue"
    /\ last' = NoCall
    /\ UNCHANGED <<m_heap, m_cache, m_pending, m_queue, m_thread, m_event,
                   s_ready_event, ready_signalled, m_processing,
                   m_result_available, m_zombie>>
    /\ rec_main_unchanged

\* The wait fails ("Uh oh"): Sleep(5000), then the inner loop all the same.
W_WaitFailed ==
    /\ pc_worker = "wait"
    /\ entry' = EmptyEntry
    /\ pc_worker' = "dequeue"
    /\ last' = NoCall
    /\ rec_shared_unchanged /\ rec_main_unchanged

\* bool recognizer::dequeue(entry& entry): does it hand out the slot?
dequeue_fails == ~usable \/ m_queue = EmptyEntry
dequeue == ~dequeue_fails

\* Faulty variant: a failed dequeue leaves m_processing as it was.
processing_after_sticky(dequeued) == dequeued \/ m_processing

\* proc(): r->m_processing = false on a failed dequeue (or a zombie),
\* r->m_processing = true on a successful one.
processing_after(dequeued) == dequeued

\* The locked block at the top of the inner loop.
W_Dequeue ==
    /\ pc_worker = "dequeue"
    /\ IF m_zombie \/ ~dequeue
       THEN /\ m_processing' = processing_after(FALSE)
            /\ m_pending' = drain_pending(m_pending)
            /\ LET n == notify_ready(FALSE, m_result_available, ready_signalled)
               IN  /\ ready_signalled' = IF ~m_zombie THEN n.rs ELSE ready_signalled
                   /\ m_result_available' = IF ~m_zombie THEN n.ra ELSE m_result_available
            /\ entry' = EmptyEntry
            /\ pc_worker' = "wait"
            /\ UNCHANGED m_queue
       ELSE /\ entry' = m_queue
            /\ m_queue' = EmptyEntry
            /\ m_processing' = processing_after(TRUE)
            /\ pc_worker' = "resolve"
            /\ UNCHANGED <<m_pending, ready_signalled, m_result_available>>
    /\ last' = NoCall
    /\ UNCHANGED <<m_heap, m_cache, m_thread, m_event, m_event_signalled,
                   s_ready_event, m_zombie>>
    /\ rec_main_unchanged

\* The classification proc() stores for a word: 1, -1, or 0 when it stores
\* nothing (an extension without an open command).
Classify(word) ==
    IF search_for_executable(word) THEN 1
    ELSE IF get_extension(word) # ""
    THEN (IF has_command(get_extension(word)) THEN 1 ELSE 0)
    ELSE -1

\* The resolution of 'entry' outside the lock, then r->store(key, 1 or -1).
W_Resolve(malloc_ok) ==
    /\ pc_worker = "resolve"
    /\ LET c == Classify(entry.m_word)
           s == store(entry.m_key, c, FALSE, m_cache, m_pending, m_heap,
                      m_result_available, ready_signalled, malloc_ok)
       IN  IF c = 0
           THEN /\ pc_worker' = "dequeue"
                /\ UNCHANGED <<m_heap, m_cache, m_pending, ready_signalled,
                               m_result_available>>
           ELSE /\ pc_worker' = "notify"
                /\ m_cache' = s.cache
                /\ m_pending' = s.pend
                /\ m_heap' = s.heap
                /\ m_result_available' = s.ra
                /\ ready_signalled' = s.rs
    /\ last' = NoCall
    /\ UNCHANGED <<m_queue, m_thread, m_event, m_event_signalled,
                   s_ready_event, m_processing, m_zombie, entry>>
    /\ rec_main_unchanged

\* r->notify_ready(true) after the store.
W_Notify ==
    /\ pc_worker = "notify"
    /\ LET n == notify_ready(TRUE, m_result_available, ready_signalled)
       IN  /\ m_result_available' = n.ra
           /\ ready_signalled' = n.rs
    /\ pc_worker' = "dequeue"
    /\ last' = NoCall
    /\ UNCHANGED <<m_heap, m_cache, m_pending, m_queue, m_thread, m_event,
                   m_event_signalled, s_ready_event, m_processing, m_zombie,
                   entry>>
    /\ rec_main_unchanged

(***************************************************************************)
(* Recognizer: initial state and next-state relation.                      *)
(***************************************************************************)
\* recognizer::recognizer(): m_heap(1024); the ready event is created by
\* CreateEvent, which can fail and leave s_ready_event null.
InitRecognizer ==
    /\ m_heap = NewHeap
    /\ m_cache = EmptyMap
    /\ m_pending = EmptyMap
    /\ m_queue = EmptyEntry
    /\ m_thread = FALSE
    /\ m_event = "null"
    /\ m_event_signalled = FALSE
    /\ s_ready_event \in BOOLEAN
    /\ ready_signalled = FALSE
    /\ m_processing = FALSE
    /\ m_result_available = FALSE
    /\ m_zombie = FALSE
    /\ pc_main = "idle"
    /\ elapsed = 0
    /\ wait_until = 0
    /\ sd_thread = FALSE
    /\ pc_worker = "none"
    /\ entry = EmptyEntry
    /\ last = NoCall

\* The outcomes the environment can give a call in the current state: a
\* failure is drawn only where the call asks the system for the resource.
EventOutcomes == IF m_event = "null" THEN BOOLEAN ELSE {TRUE}
ThreadOutcomes == IF m_thread THEN {TRUE} ELSE BOOLEAN
MallocOutcomes == IF m_heap.m_used + 1 <= HeapPageSize THEN {TRUE} ELSE BOOLEAN

MainStep(keys) ==
    \/ \E key \in keys : Find(key)
    \/ \E key \in keys, event_ok \in EventOutcomes,
          thread_ok \in ThreadOutcomes, malloc_ok \in MallocOutcomes :
           Enqueue(key, event_ok, thread_ok, malloc_ok)
    \/ Clear
    \/ NeedRefresh

EndLineStep ==
    \/ EL_Enter
    \/ EL_Loop
    \/ EL_WaitSignalled
    \/ EL_WaitTimeout
    \/ EL_WaitFailed
    \/ EL_Check
    \/ EL_Return

ShutdownStep ==
    \/ SD_Lock
    \/ SD_Join
    \/ SD_Close

WorkerStep ==
    \/ W_Wake
    \/ W_Dequeue
    \/ \E malloc_ok \in MallocOutcomes : W_Resolve(malloc_ok)
    \/ W_Notify

\* The recognizer's calls, its shutdown and its worker.  end_line() is left
\* to NextEndLine: it writes none of the recognizer's fields.
NextRecognizer ==
    \/ MainStep(Keys)
    \/ ShutdownStep
    \/ WorkerStep
    \/ W_WaitFailed

\* The recognizer asked by clink._recognize_command on every keystroke.
NextQuery ==
    \/ \E word \in Words, event_ok \in EventOutcomes,
          thread_ok \in ThreadOutcomes, malloc_ok \in MallocOutcomes :
           RecognizeCommand(word, event_ok, thread_ok, malloc_ok)
    \/ Clear
    \/ NeedRefresh
    \/ ShutdownStep
    \/ WorkerStep
    \/ W_WaitFailed

\* end_line() with the calls and the worker running beside it.
NextEndLine ==
    \/ MainStep(EndLineKeys)
    \/ EndLineStep
    \/ WorkerStep
    \/ W_WaitFailed
    \/ Tick

(***************************************************************************)
(* The recursive mutex.  In NextLock every function is two steps where it  *)
(* holds a std::lock_guard: the guard's constructor, which waits for the   *)
(* mutex, and the rest of the locked block, whose end releases it.  The    *)
(* locks a function takes again inside its block (store() inside           *)
(* enqueue(), clear() inside shutdown(), dequeue() and notify_ready()      *)
(* inside proc()'s block) are re-entries by the owner and part of the      *)
(* block's step.                                                           *)
(***************************************************************************)
\* The functions and blocks that begin with a lock_guard on m_mutex.
LockedOps == {"find", "enqueue", "clear", "need_refresh", "shutdown",
              "proc", "store", "notify_ready", "end_line", "el_check"}

\* The two locked blocks of end_line(): at entry, and at the loop's end.
EndLineOps == {"end_line", "el_check"}

\* Those of them, and of the lock-free steps, that read or write m_cache,
\* m_pending, m_queue or m_heap.
AccessOps == {"find", "enqueue", "clear", "shutdown", "proc", "store"}

\* Faulty variant: proc()'s block has no lock_guard.
takes_lock_except_proc(op) == op \in LockedOps \ {"proc"}

\* Does the function or block hold a lock_guard on m_mutex?
takes_lock(op) == op \in LockedOps

\* Where the main thread can enter each function.
MainOpPoints(op) ==
    CASE op \in {"find", "enqueue"} -> CallPoints
      [] op = "need_refresh" -> {"idle", "el_reclassify", "el_final"}
      [] op \in {"clear", "shutdown", "end_line"} -> {"idle"}
      [] op = "el_check" -> {"el_reclassify"}
      [] OTHER -> {}

\* std::lock_guard<std::recursive_mutex> lock(m_mutex) on the main thread.
LockMain(op) ==
    /\ takes_lock(op)
    /\ pc_main \in MainOpPoints(op)
    /\ lk_main = "out"
    /\ m_mutex = "none"
    /\ m_mutex' = "main"
    /\ lk_main' = op
    /\ h_actor' = "main"
    /\ h_access' = FALSE
    /\ UNCHANGED <<vars_recognizer, lk_worker>>

\* Faulty variant: shutdown()'s lock_guard lives until the function returns.
guard_scope_whole_shutdown(op) == IF op = "shutdown" THEN "function" ELSE "block"

\* Every lock_guard on m_mutex is the first statement of a block that ends
\* before the function waits or joins: its scope is that block.
guard_scope(op) == "block"

\* The rest of function op on the main thread: its block A, then the
\* lock_guard's destructor if it holds one.
MainBody(op, A) ==
    /\ IF takes_lock(op)
       THEN /\ lk_main = op
            /\ IF guard_scope(op) = "block"
               THEN lk_main' = "out" /\ m_mutex' = "none"
               ELSE UNCHANGED <<lk_main, m_mutex>>
       ELSE lk_main = "out" /\ UNCHANGED <<lk_main, m_mutex>>
    /\ A
    /\ h_actor' = "main"
    /\ h_access' = (op \in AccessOps)
    /\ UNCHANGED lk_worker

\* What the worker does next: proc()'s locked block, store() after a
\* resolution that stores, notify_ready(), or a step outside every lock.
WorkerOp ==
    CASE pc_worker = "dequeue" -> "proc"
      [] pc_worker = "resolve" /\ Classify(entry.m_word) # 0 -> "store"
      [] pc_worker = "notify" -> "notify_ready"
      [] OTHER -> "wait"

\* std::lock_guard<std::recursive_mutex> lock(r->m_mutex) on the worker.
LockWorker ==
    /\ takes_lock(WorkerOp)
    /\ lk_worker = "out"
    /\ m_mutex = "none"
    /\ m_mutex' = "worker"
    /\ lk_worker' = WorkerOp
    /\ h_actor' = "worker"
    /\ h_access' = FALSE
    /\ UNCHANGED <<vars_recognizer, lk_main>>

\* The worker's step A, then the lock_guard's destructor if it holds one.
WorkerBody(A) ==
    /\ IF takes_lock(WorkerOp)
       THEN lk_worker = WorkerOp /\ lk_worker' = "out" /\ m_mutex' = "none"
       ELSE lk_worker = "out" /\ UNCHANGED <<lk_worker, m_mutex>>
    /\ A
    /\ h_actor' = "worker"
    /\ h_access' = (WorkerOp \in AccessOps)
    /\ UNCHANGED lk_main

\* The recognizer with its mutex.
NextLock ==
    \/ \E op \in LockedOps \ EndLineOps : LockMain(op)
    \/ \E key \in Keys : MainBody("find", Find(key))
    \/ \E key \in Keys, event_ok \in EventOutcomes,
          thread_ok \in ThreadOutcomes, malloc_ok \in MallocOutcomes :
           MainBody("enqueue", Enqueue(key, event_ok, thread_ok, malloc_ok))
    \/ MainBody("clear", Clear)
    \/ MainBody("need_refresh", NeedRefresh)
    \/ MainBody("shutdown", SD_Lock)
    \/ MainBody("join", SD_Join)
    \/ MainBody("close", SD_Close)
    \/ LockWorker
    \/ WorkerBody(WorkerStep)
    \/ WorkerBody(W_WaitFailed)

\* The words typed while the whole recognizer is followed.
WholeKeys == {"%cmd%", "nofile"}

\* The thread that called shutdown() is inside it until it returns.
main_in_shutdown == pc_main \in {"sd_join", "sd_close"}

\* The recognizer with its mutex, end_line() and shutdown(), all called by
\* the main thread, and the worker.
NextWhole ==
    \/ ~main_in_shutdown /\ \E op \in LockedOps : LockMain(op)
    \/ \E key \in WholeKeys : MainBody("find", Find(key))
    \/ \E key \in WholeKeys, event_ok \in EventOutcomes,
          thread_ok \in ThreadOutcomes, malloc_ok \in MallocOutcomes :
           MainBody("enqueue", Enqueue(key, event_ok, thread_ok, malloc_ok))
    \/ MainBody("clear", Clear)
    \/ MainBody("need_refresh", NeedRefresh)
    \/ MainBody("end_line", EL_Enter)
    \/ MainBody("loop", EL_Loop)
    \/ MainBody("wait", EL_WaitSignalled)
    \/ MainBody("wait", EL_WaitTimeout)
    \/ MainBody("wait", EL_WaitFailed)
    \/ MainBody("el_check", EL_Check)
    \/ MainBody("return", EL_Return)
    \/ Tick /\ h_actor' = "clock" /\ h_access' = FALSE /\ UNCHANGED vars_lock
    \/ MainBody("shutdown", SD_Lock)
    \/ MainBody("join", SD_Join)
    \/ MainBody("close", SD_Close)
    \/ LockWorker
    \/ WorkerBody(WorkerStep)
    \/ WorkerBody(W_WaitFailed)

(***************************************************************************)
(* The idle driver: class lua_input_idle.                                  *)
(***************************************************************************)
\* A timeout is a value of 'unsigned'.  Values up to MaxMs are held as
\* numbers of milliseconds; 0xFFFFFFFF, which is INFINITE, is held apart.
Ms(n) == [infinite |-> FALSE, ms |-> n]
INFINITE == [infinite |-> TRUE, ms |-> 0]

\* What clink._wait_duration can answer: the pcall fails, the value is no
\* number, a number of seconds (held here in microseconds), or a number so
\* large that sec * 1000 is not a value of 'unsigned'.
Number(usec) == [kind |-> "number", usec |-> usec]
DurationAnswers ==
    {[kind |-> "error", usec |-> 0], [kind |-> "notnum", usec |-> 0],
     [kind |-> "beyond_unsigned", usec |-> 0]}
        \cup {Number(usec) : usec \in {-1500, 0, 999, 1500, 250000}}

\* bool lua_input_idle::has_coroutines(): false when the pcall fails.
has_coroutines == coroutines = "yes"

\* Faulty variant: is_enabled() answers without recording 'disabled'.
is_enabled_without_disabling(enabled) ==
    IF ~enabled THEN [ret |-> FALSE, enabled |-> FALSE, asked |-> FALSE]
    ELSE [ret |-> has_coroutines, enabled |-> enabled, asked |-> TRUE]

\* bool lua_input_idle::is_enabled(): its result, m_enabled afterwards, and
\* whether it called has_coroutines().
is_enabled(enabled) ==
    IF ~enabled THEN [ret |-> FALSE, enabled |-> FALSE, asked |-> FALSE]
    ELSE IF ~has_coroutines THEN [ret |-> FALSE, enabled |-> FALSE, asked |-> TRUE]
    ELSE [ret |-> TRUE, enabled |-> TRUE, asked |-> TRUE]

\* Faulty variant: the seconds are taken for milliseconds.
wait_timeouts_unscaled(answer) ==
    IF answer.kind \in {"error", "notnum"} THEN {INFINITE}
    ELSE IF answer.kind = "beyond_unsigned" THEN {Ms(0), Ms(1), INFINITE}
    ELSE IF answer.usec > 0 THEN {Ms(answer.usec \div 1000000)}
    ELSE {Ms(0)}

\* get_timeout() after is_enabled(): INFINITE when the pcall fails or the
\* value is no number, else (sec > 0) ? unsigned(sec * 1000) : 0.  The
\* conversion truncates; of a value that 'unsigned' cannot hold it is
\* undefined, and any value may come out.
wait_timeouts(answer) ==
    IF answer.kind \in {"error", "notnum"} THEN {INFINITE}
    ELSE IF answer.kind = "beyond_unsigned" THEN {Ms(0), Ms(1), INFINITE}
    ELSE IF answer.usec > 0 THEN {Ms(answer.usec \div 1000)}
    ELSE {Ms(0)}

NoIdleCall == [op |-> "none", asked |-> FALSE, timeout |-> Ms(0)]
IdleCall(op, asked, timeout) == [op |-> op, asked |-> asked, timeout |-> timeout]

\* The input loop is not waiting.
NoWait == [infinite |-> FALSE, ms |-> -1]

\* The main thread is neither inside reset() nor waiting for input.
main_thread_free == reset_pc = 0 /\ idle_wait = NoWait

idle_fields_unchanged ==
    UNCHANGED <<s_idle, m_idle_event, yield_wake_event, open_events,
                coroutines, wait_duration, reset_pc, old_event, wake_signalled>>

\* unsigned lua_input_idle::get_timeout(); the input loop then waits with
\* the timeout it returned.
GetTimeout ==
    /\ s_idle
    /\ main_thread_free
    /\ m_iterations < MaxIterations
    /\ m_iterations' = m_iterations + 1
    /\ LET e == is_enabled(m_enabled)
       IN  /\ m_enabled' = e.enabled
           /\ \E t \in (IF e.ret THEN wait_timeouts(wait_duration)
                         ELSE {INFINITE}) :
                  /\ idle_last' = IdleCall("get_timeout", e.asked, t)
                  /\ idle_wait' = t
    /\ idle_fields_unchanged

\* Faulty variant: kick() enables nothing.
kick_without_effect(enabled) == enabled

\* void lua_input_idle::kick(): m_enabled afterwards.
kick(enabled) == IF ~enabled /\ has_coroutines THEN TRUE ELSE enabled

\* void kick_idle(): if (s_idle) s_idle->kick();
KickIdle ==
    /\ main_thread_free
    /\ m_enabled' = IF s_idle THEN kick(m_enabled) ELSE m_enabled
    /\ idle_last' = IdleCall("kick", s_idle /\ ~m_enabled, Ms(0))
    /\ UNCHANGED <<m_iterations, idle_wait>>
    /\ idle_fields_unchanged

\* CreateEvent: no handle (0), or a handle value that is not open now.
NewEvents(open) == {0} \cup ((1..MaxEvents) \ open)

\* Faulty variant: the old handle is closed before the new event exists.
reset_order_close_first == <<"close", "publish">>

\* The two halves of reset() in program order: lines 51-54 enable the
\* driver, create the event and publish it; lines 56-57 close the old one.
reset_order == <<"publish", "close">>

\* One half of reset(), 'old' being the local old_event and h the handle
\* that CreateEvent returns.
reset_half(half, old, h) ==
    IF half = "publish"
    THEN /\ m_enabled' = TRUE
         /\ m_iterations' = 0
         /\ h \in NewEvents(open_events)
         /\ m_idle_event' = h
         /\ yield_wake_event' = h
         /\ wake_signalled' = FALSE
         /\ open_events' = open_events \cup ({h} \ {0})
    ELSE /\ h = 0
         /\ open_events' = open_events \ {old}
         /\ wake_signalled' = (wake_signalled /\ m_idle_event # old)
         /\ UNCHANGED <<m_enabled, m_iterations, m_idle_event,
                        yield_wake_event>>

\* void lua_input_idle::reset(), up to the point between its two halves.
ResetBegin ==
    /\ s_idle
    /\ main_thread_free
    /\ old_event' = m_idle_event
    /\ \E h \in 0..MaxEvents : reset_half(reset_order[1], m_idle_event, h)
    /\ reset_pc' = 1
    /\ idle_last' = NoIdleCall
    /\ UNCHANGED <<s_idle, coroutines, wait_duration, idle_wait>>

\* void lua_input_idle::reset(), the rest of it.
ResetEnd ==
    /\ reset_pc = 1
    /\ \E h \in 0..MaxEvents : reset_half(reset_order[2], old_event, h)
    /\ reset_pc' = 0
    /\ old_event' = 0
    /\ idle_last' = IdleCall("reset", FALSE, Ms(0))
    /\ UNCHANGED <<s_idle, coroutines, wait_duration, idle_wait>>

\* lua_input_idle::~lua_input_idle(): m_event is not closed.
DestroyIdle ==
    /\ s_idle
    /\ main_thread_free
    /\ s_idle' = FALSE
    /\ yield_wake_event' = 0
    /\ idle_last' = NoIdleCall
    /\ UNCHANGED <<m_enabled, m_iterations, m_idle_event, open_events,
                   coroutines, wait_duration, reset_pc, old_event,
                   wake_signalled, idle_wait>>

\* lua_input_idle::lua_input_idle(lua_state&), with the member initialisers
\* m_event = 0, m_iterations = 0, m_enabled = true.
ConstructIdle ==
    /\ ~s_idle
    /\ main_thread_free
    /\ s_idle' = TRUE
    /\ m_enabled' = TRUE
    /\ m_iterations' = 0
    /\ m_idle_event' = 0
    /\ wake_signalled' = FALSE
    /\ idle_last' = NoIdleCall
    /\ UNCHANGED <<yield_wake_event, open_events, coroutines, wait_duration,
                   reset_pc, old_event, idle_wait>>

\* The script layer: coroutines come and go, and the duration it asks for
\* changes.
ScriptChanges(has, answer) ==
    /\ coroutines' = has
    /\ wait_duration' = answer
    /\ <<has, answer>> # <<coroutines, wait_duration>>
    /\ idle_last' = NoIdleCall
    /\ UNCHANGED <<s_idle, m_enabled, m_iterations, m_idle_event,
                   yield_wake_event, open_events, reset_pc, old_event,
                   wake_signalled, idle_wait>>

\* A background worker signals the wake event it was given by
\* set_yield_wake_event.
WakeSignal ==
    /\ yield_wake_event # 0
    /\ yield_wake_event \in open_events
    /\ ~wake_signalled
    /\ wake_signalled' = (yield_wake_event = m_idle_event)
    /\ UNCHANGED <<s_idle, m_enabled, m_iterations, m_idle_event,
                   yield_wake_event, open_events, coroutines, wait_duration,
                   idle_last, reset_pc, old_event, idle_wait>>

\* What ends the input loop's wait with no key available.
IdleTriggers == {"expired", "wake"}

\* void lua_input_idle::on_idle(), called by the input loop on an idle
\* trigger: the wait expired, or the wake event (get_waitevent(), when it
\* is not null) was signalled.  The wait resets the auto-reset event;
\* resume_coroutines() runs script code.
OnIdle(trigger, has, answer) ==
    /\ s_idle
    /\ reset_pc = 0
    /\ idle_wait # NoWait
    /\ IF trigger = "expired"
       THEN ~idle_wait.infinite /\ UNCHANGED wake_signalled
       ELSE m_idle_event # 0 /\ wake_signalled /\ wake_signalled' = FALSE
    /\ idle_wait' = NoWait
    /\ coroutines' = has
    /\ wait_duration' = answer
    /\ idle_last' = IdleCall("on_idle", trigger = "wake", idle_wait)
    /\ UNCHANGED <<s_idle, m_enabled, m_iterations, m_idle_event,
                   yield_wake_event, open_events, reset_pc, old_event>>

\* A key is available: the wait ends and the input loop returns it.
KeyAvailable ==
    /\ idle_wait # NoWait
    /\ idle_wait' = NoWait
    /\ idle_last' = NoIdleCall
    /\ UNCHANGED <<s_idle, m_enabled, m_iterations, m_idle_event,
                   yield_wake_event, open_events, coroutines, wait_duration,
                   reset_pc, old_event, wake_signalled>>

InitIdle ==
    /\ s_idle = TRUE
    /\ m_enabled = TRUE
    /\ m_iterations = 0
    /\ m_idle_event = 0
    /\ yield_wake_event = 0
    /\ open_events = {}
    /\ coroutines = "no"
    /\ wait_duration = Number(0)
    /\ idle_last = NoIdleCall
    /\ reset_pc = 0
    /\ old_event = 0
    /\ wake_signalled = FALSE
    /\ idle_wait = NoWait

NextIdle ==
    \/ GetTimeout
    \/ KickIdle
    \/ ResetBegin
    \/ ResetEnd
    \/ DestroyIdle
    \/ ConstructIdle
    \/ \E has \in {"yes", "no", "error"}, answer \in DurationAnswers :
           ScriptChanges(has, answer)
    \/ WakeSignal
    \/ \E trigger \in IdleTriggers, has \in {"yes", "no", "error"},
          answer \in DurationAnswers : OnIdle(trigger, has, answer)
    \/ KeyAvailable

(***************************************************************************)
(* io.popenrw, io.popenyield and the registry of their children.           *)
(***************************************************************************)
Files == 1..MaxFiles
Children == 1..MaxChildren
\* What a child writes: the first bytes of a text that repeats no byte.
Text == <<"a", "b", "c", "d">>
Outputs == {SubSeq(Text, 1, n) : n \in 0..MaxOut}

\* The stream the C runtime opens next: the lowest free slot of its table.
new_stream(open) == CHOOSE f \in Files \ open : \A g \in Files \ open : f <= g

\* popenrw_info(): a null pointer is 0, and so is 'no process handle'.
NoInfo == [id |-> 0, r |-> 0, w |-> 0, process_handle |-> 0, async |-> FALSE]

RECURSIVE popenrw_find(_, _)
\* popenrw_info::find(f), from the head of the list 'p'.
popenrw_find(p, f) ==
    IF p = <<>> THEN NoInfo
    ELSE IF f = Head(p).r \/ f = Head(p).w THEN Head(p)
    ELSE popenrw_find(Tail(p), f)

\* popenrw_info::add(p)
popenrw_add(list, p) == <<p>> \o list

\* Faulty variant: remove() finds nothing to unlink.
popenrw_remove_nothing(list, p) == list

\* popenrw_info::remove(p)
popenrw_remove(list, p) == SelectSeq(list, LAMBDA q : q.id # p.id)

\* popenrw_info::close(f): the fields after fclose(f).
popenrw_close(p, f) ==
    [p EXCEPT !.r = IF f = p.r THEN 0 ELSE @, !.w = IF f = p.w THEN 0 ELSE @]

\* Faulty variant: the handle is given out while a stream is open.
get_wait_handle_early(p) == p.process_handle

\* popenrw_info::get_wait_handle(): 0 while a stream is open.
get_wait_handle(p) == IF p.r # 0 \/ p.w # 0 THEN 0 ELSE p.process_handle

\* Faulty variant: every final close waits.
close_waits_always(p) == TRUE

\* pclosefile: bool wait = !info->is_async();
close_waits(p) == ~p.async

\* The list with the fields of one association replaced.
with_info(list, p) == [i \in 1..Len(list) |-> IF list[i].id = p.id THEN p ELSE list[i]]

\* What luaL_fileresult pushes: true, or nil with a message and errno.
luaL_fileresult(stat) ==
    [kind |-> "fileresult", values |-> IF stat THEN 1 ELSE 3, status |-> 0]

\* What luaL_execresult pushes: the failure triple for -1, else the triple
\* (true or nil, "exit", stat).
luaL_execresult(stat) ==
    IF stat = -1 THEN luaL_fileresult(FALSE)
    ELSE [kind |-> "execresult", values |-> 3, status |-> stat]

\* The two streams a successful spawn returns.
TwoValues == [kind |-> "streams", values |-> 2, status |-> 0]

NoPopenCall == [op |-> "none", point |-> <<"none", "ok">>, child |-> 0,
                blocked |-> FALSE, ret |-> luaL_fileresult(TRUE)]
PopenCall(op, point, child, blocked, ret) ==
    [op |-> op, point |-> point, child |-> child, blocked |-> blocked, ret |-> ret]

\* struct pipe_pair, before init().
NoPipe == [local |-> 0, remote |-> 0]

\* pipe_pair::init(): both ends, or neither.  When _pipe fails nothing was
\* made; when _wfdopen fails both descriptors are closed; when dup_handle
\* fails the descriptor of the remote end and the local stream are closed.
pipe_pair_init(at, f) == IF at = "ok" THEN [local |-> f, remote |-> 1] ELSE NoPipe

\* pipe_pair::transfer_local()
transfer_local(pair) == [pair EXCEPT !.local = 0]

\* Faulty variant: the destructor leaves the local stream open.
pipe_pair_fclose_nothing(pair) == {}

\* pipe_pair::~pipe_pair(): the stream it closes.
pipe_pair_fclose(pair) == {pair.local} \ {0}

\* pipe_pair::~pipe_pair(): the number of handles it closes.
pipe_pair_CloseHandle(pair) == pair.remote

\* The setup steps of the two functions, and where a step can fail.
PipeFailures == {"pipe", "fdopen", "dup"}
PopenrwPoints ==
    {<<"none", "ok">>, <<"process", "fail">>}
        \cup ({"stdin", "stdout"} \X PipeFailures)
PopenyieldPoints ==
    {<<"none", "ok">>, <<"temp_file", "fail">>, <<"dup_handle", "fail">>,
     <<"createthread", "fail">>, <<"process", "fail">>}
        \cup ({"stdout"} \X PipeFailures)
at_pipe(point, name) == IF point[1] = name THEN point[2] ELSE "ok"

NoProc == [state |-> "none", status |-> 0, async |-> FALSE, out |-> <<>>,
           sent |-> <<>>]
NoRelay == [state |-> "none", m_read |-> 0, m_write |-> 0, canceled |-> FALSE,
            why |-> "none"]

\* popen_buffering::~popen_buffering(): the stream and the handles it closes.
popen_buffering_fclose(relay) == {relay.m_read} \ {0}
popen_buffering_CloseHandle(relay) == relay.m_write

popen_rest_unchanged ==
    UNCHANGED <<pipes, spool, pc_lua, h_cleanups>>

\* int io_popenrw(lua_State*), failing at 'point' or not at all.
IoPopenrw(point) ==
    /\ pc_lua = 0
    /\ spawned < MaxChildren
    /\ Cardinality(Files \ files_open) >= 2
    /\ LET f_in == new_stream(files_open)
           f_out == new_stream(files_open \cup {f_in})
           pipe_stdin == pipe_pair_init(at_pipe(point, "stdin"), f_in)
           stdin_ok == pipe_stdin.local # 0 /\ pipe_stdin.remote # 0
           pipe_stdout == IF stdin_ok
                          THEN pipe_pair_init(at_pipe(point, "stdout"), f_out)
                          ELSE NoPipe
           failed_pipes == ~stdin_ok \/ pipe_stdout.local = 0
                               \/ pipe_stdout.remote = 0
           process_handle == IF failed_pipes \/ point[1] = "process"
                             THEN 0 ELSE spawned + 1
           failed == failed_pipes \/ process_handle = 0
           info == [id |-> process_handle, r |-> pipe_stdout.local,
                    w |-> pipe_stdin.local, process_handle |-> process_handle,
                    async |-> FALSE]
           end_stdin == IF failed THEN pipe_stdin ELSE transfer_local(pipe_stdin)
           end_stdout == IF failed THEN pipe_stdout ELSE transfer_local(pipe_stdout)
       IN  /\ files_open' =
                  (files_open \cup ({pipe_stdin.local, pipe_stdout.local} \ {0}))
                      \ (pipe_pair_fclose(end_stdin) \cup pipe_pair_fclose(end_stdout))
           /\ handles_open' =
                  handles_open + pipe_stdin.remote + pipe_stdout.remote
                      - pipe_pair_CloseHandle(end_stdin)
                      - pipe_pair_CloseHandle(end_stdout)
           /\ IF failed
              THEN /\ UNCHANGED <<s_head, lua_streams, proc_handles, procs, spawned>>
                   /\ popen_last' = PopenCall("popenrw", point, 0, FALSE,
                                              luaL_fileresult(FALSE))
              ELSE /\ s_head' = popenrw_add(s_head, info)
                   /\ lua_streams' = lua_streams \cup {info.r, info.w}
                   /\ proc_handles' = proc_handles \cup {process_handle}
                   /\ procs' = [procs EXCEPT ![process_handle] =
                                    [NoProc EXCEPT !.state = "running"]]
                   /\ spawned' = spawned + 1
                   /\ popen_last' = PopenCall("popenrw", point, process_handle,
                                              FALSE, TwoValues)
    /\ UNCHANGED relays
    /\ popen_rest_unchanged

\* The order of the setup steps of io_popenyield.
YieldOrder == <<"temp_file", "dup_handle", "stdout", "createthread", "process",
                "none">>
\* TRUE iff the setup got past 'step' before it failed at 'point'.
passed(point, step) ==
    \E i, j \in 1..Len(YieldOrder) :
        YieldOrder[i] = step /\ YieldOrder[j] = point[1] /\ i < j

\* Faulty variant: the failure path keeps the thread object.
release_buffering_nothing(relay) == NoRelay

\* io_popenyield: 'buffering = nullptr;' on the failure path, where the
\* function holds the only reference: the object that goes away.
release_buffering(relay) == relay

\* int io_popenyield(lua_State*), failing at 'point' or not at all; the
\* child will write 'out'.
IoPopenyield(point, out) ==
    /\ pc_lua = 0
    /\ spawned < MaxChildren
    /\ Cardinality(Files \ files_open) >= 2
    /\ LET f_temp == new_stream(files_open)
           f_pipe == new_stream(files_open \cup {f_temp})
           temp_read == IF passed(point, "temp_file") THEN f_temp ELSE 0
           temp_write == IF passed(point, "dup_handle") THEN 1 ELSE 0
           pipe_stdout == IF passed(point, "dup_handle")
                          THEN pipe_pair_init(at_pipe(point, "stdout"), f_pipe)
                          ELSE NoPipe
           made == passed(point, "stdout")
           buffering == IF made
                        THEN [NoRelay EXCEPT !.state = "created",
                                             !.m_read = pipe_stdout.local,
                                             !.m_write = temp_write]
                        ELSE NoRelay
           end_stdout == IF made THEN transfer_local(pipe_stdout) ELSE pipe_stdout
           end_temp_write == IF made THEN 0 ELSE temp_write
           process_handle == IF point[1] = "none" THEN spawned + 1 ELSE 0
           failed == process_handle = 0
           end_temp_read == IF failed THEN temp_read ELSE 0
           gone == IF failed THEN release_buffering(buffering) ELSE NoRelay
           info == [id |-> process_handle, r |-> temp_read, w |-> 0,
                    process_handle |-> process_handle, async |-> TRUE]
       IN  /\ files_open' =
                  (files_open \cup ({temp_read, pipe_stdout.local} \ {0}))
                      \ (({end_temp_read} \ {0}) \cup pipe_pair_fclose(end_stdout)
                            \cup popen_buffering_fclose(gone))
           /\ handles_open' =
                  handles_open + temp_write + pipe_stdout.remote
                      - end_temp_write
                      - pipe_pair_CloseHandle(end_stdout)
                      - popen_buffering_CloseHandle(gone)
           /\ IF failed
              THEN /\ UNCHANGED <<s_head, lua_streams, proc_handles, procs,
                                  relays, spawned>>
                   /\ popen_last' = PopenCall("popenyield", point, 0, FALSE,
                                              luaL_fileresult(FALSE))
              ELSE /\ s_head' = popenrw_add(s_head, info)
                   /\ lua_streams' = lua_streams \cup {info.r}
                   /\ proc_handles' = proc_handles \cup {process_handle}
                   /\ procs' = [procs EXCEPT ![process_handle] =
                                    [NoProc EXCEPT !.state = "running",
                                                   !.async = TRUE, !.out = out]]
                   /\ relays' = [relays EXCEPT ![process_handle] =
                                    [buffering EXCEPT !.state = "running"]]
                   /\ spawned' = spawned + 1
                   /\ popen_last' = PopenCall("popenyield", point, process_handle,
                                              FALSE, TwoValues)
    /\ popen_rest_unchanged

\* static int pclosefile(lua_State*), called by Lua for the stream f, up to
\* its return or to the call of pclosewait; fclose() answers res.
PCloseFile(f, res) ==
    /\ pc_lua = 0
    /\ f \in lua_streams
    /\ lua_streams' = lua_streams \ {f}
    /\ LET found == popenrw_find(s_head, f)
           info == popenrw_close(found, f)
           process_handle == get_wait_handle(info)
       IN  IF found = NoInfo
           THEN /\ popen_last' = PopenCall("close", <<"none", "ok">>, 0, FALSE,
                                           luaL_fileresult(FALSE))
                /\ UNCHANGED <<s_head, files_open, pc_lua, h_cleanups>>
           ELSE /\ files_open' = files_open \ {f}
                /\ IF process_handle # 0
                   THEN /\ s_head' = popenrw_remove(s_head, info)
                        /\ h_cleanups' = [h_cleanups EXCEPT ![info.id] = @ + 1]
                        /\ IF close_waits(info)
                           THEN /\ pc_lua' = process_handle
                                /\ popen_last' =
                                       PopenCall("closing", <<"none", "ok">>,
                                                 info.id, TRUE,
                                                 luaL_fileresult(TRUE))
                           ELSE /\ pc_lua' = 0
                                /\ popen_last' =
                                       PopenCall("close", <<"none", "ok">>,
                                                 info.id, FALSE,
                                                 luaL_execresult(0))
                   ELSE /\ s_head' = with_info(s_head, info)
                        /\ popen_last' = PopenCall("close", <<"none", "ok">>,
                                                   info.id, FALSE,
                                                   luaL_fileresult(res = 0))
                        /\ UNCHANGED <<pc_lua, h_cleanups>>
    /\ UNCHANGED <<handles_open, proc_handles, procs, pipes, spool, relays,
                   spawned>>

\* static int pclosewait(intptr_t): _cwait returns once the child has
\* exited, and closes the process handle; pclosefile returns the status.
PCloseWait ==
    /\ pc_lua # 0
    /\ procs[pc_lua].state = "exited"
    /\ procs' = [procs EXCEPT ![pc_lua].state = "reaped"]
    /\ proc_handles' = proc_handles \ {pc_lua}
    /\ pc_lua' = 0
    /\ popen_last' = PopenCall("close", <<"none", "ok">>, pc_lua, TRUE,
                               luaL_execresult(procs[pc_lua].status))
    /\ UNCHANGED <<s_head, files_open, handles_open, lua_streams, pipes, spool,
                   relays, spawned, h_cleanups>>

\* The child writes the next byte of its output to its standard output.
ChildWrite(c) ==
    /\ procs[c].state = "running"
    /\ procs[c].out # <<>>
    /\ relays[c].state = "running"
    /\ procs' = [procs EXCEPT ![c].out = Tail(@),
                              ![c].sent = Append(@, Head(procs[c].out))]
    /\ pipes' = [pipes EXCEPT ![c] = Append(@, Head(procs[c].out))]
    /\ popen_last' = NoPopenCall
    /\ UNCHANGED <<s_head, files_open, handles_open, proc_handles, lua_streams,
                   spool, relays, pc_lua, spawned, h_cleanups>>

\* The child exits with 'status': when it has written its output, or when
\* nothing reads its output any more.
ChildExit(c, status) ==
    /\ procs[c].state = "running"
    /\ procs[c].out = <<>> \/ relays[c].state # "running"
    /\ procs' = [procs EXCEPT ![c].state = "exited", ![c].status = status]
    /\ popen_last' = NoPopenCall
    /\ UNCHANGED <<s_head, files_open, handles_open, proc_handles, lua_streams,
                   pipes, spool, relays, pc_lua, spawned, h_cleanups>>

SubSeqFrom(q, n) == SubSeq(q, n, Len(q))

\* Faulty variant: a later block overwrites the file from its start.
relay_write_from_start(file, block) == block \o SubSeqFrom(file, Len(block) + 1)

\* popen_buffering::do_work(): WriteFile(wh, m_buffer, len, ...) at the end
\* of the file.
relay_write(file, block) == file \o block

\* popen_buffering::do_work(): one round of the loop that reads n bytes and
\* writes them all.
RelayCopy(c, n) ==
    /\ relays[c].state = "running"
    /\ ~relays[c].canceled
    /\ n \in 1..BufSize /\ n <= Len(pipes[c])
    /\ pipes' = [pipes EXCEPT ![c] = SubSeqFrom(@, n + 1)]
    /\ spool' = [spool EXCEPT ![c] = relay_write(@, SubSeq(pipes[c], 1, n))]
    /\ popen_last' = NoPopenCall
    /\ UNCHANGED <<s_head, files_open, handles_open, proc_handles, lua_streams,
                   procs, relays, pc_lua, spawned, h_cleanups>>

\* Why the loop of do_work() ends.
RelayEnds == {"eof", "read_error", "write_error", "short_write", "canceled"}

\* popen_buffering::do_work(): the round that leaves the loop, and the rest
\* of the function: the file pointer is reset, the write handle closed.
RelayStop(c, why) ==
    /\ relays[c].state = "running"
    /\ why \in RelayEnds
    /\ why = "canceled" => relays[c].canceled
    /\ why = "eof" => pipes[c] = <<>> /\ procs[c].state # "running"
    /\ why \in {"write_error", "short_write"} => pipes[c] # <<>>
    /\ IF why = "short_write" /\ Len(pipes[c]) > 1
       THEN spool' = [spool EXCEPT ![c] = relay_write(@, SubSeq(pipes[c], 1, 1))]
       ELSE UNCHANGED spool
    /\ IF why \in {"write_error", "short_write"}
       THEN pipes' = [pipes EXCEPT ![c] = <<>>]
       ELSE UNCHANGED pipes
    /\ relays' = [relays EXCEPT ![c].state = "done", ![c].m_write = 0,
                                ![c].why = why]
    /\ handles_open' = handles_open - relays[c].m_write
    /\ popen_last' = NoPopenCall
    /\ UNCHANGED <<s_head, files_open, proc_handles, lua_streams, procs, pc_lua,
                   spawned, h_cleanups>>

\* yield_thread::cancel(), by the yield guard.
RelayCancel(c) ==
    /\ relays[c].state = "running"
    /\ ~relays[c].canceled
    /\ relays' = [relays EXCEPT ![c].canceled = TRUE]
    /\ popen_last' = NoPopenCall
    /\ UNCHANGED <<s_head, files_open, handles_open, proc_handles, lua_streams,
                   procs, pipes, spool, pc_lua, spawned, h_cleanups>>

\* The yield guard lets go of a thread object that has finished:
\* ~popen_buffering().
RelayDestroy(c) ==
    /\ relays[c].state = "done"
    /\ files_open' = files_open \ popen_buffering_fclose(relays[c])
    /\ handles_open' = handles_open - popen_buffering_CloseHandle(relays[c])
    /\ relays' = [relays EXCEPT ![c].state = "destroyed", ![c].m_read = 0]
    /\ popen_last' = NoPopenCall
    /\ UNCHANGED <<s_head, proc_handles, lua_streams, procs, pipes, spool,
                   pc_lua, spawned, h_cleanups>>

InitPopen ==
    /\ s_head = <<>>
    /\ files_open = {}
    /\ handles_open = 0
    /\ proc_handles = {}
    /\ lua_streams = {}
    /\ procs = [c \in Children |-> NoProc]
    /\ pipes = [c \in Children |-> <<>>]
    /\ spool = [c \in Children |-> <<>>]
    /\ relays = [c \in Children |-> NoRelay]
    /\ pc_lua = 0
    /\ spawned = 0
    /\ popen_last = NoPopenCall
    /\ h_cleanups = [c \in Children |-> 0]

\* The calls, with children that exit without writing anything.
NextPopen ==
    \/ \E point \in PopenrwPoints : IoPopenrw(point)
    \/ \E point \in PopenyieldPoints : IoPopenyield(point, <<>>)
    \/ \E f \in Files, res \in {0, -1} : PCloseFile(f, res)
    \/ PCloseWait
    \/ \E c \in Children, status \in {0, 1} : ChildExit(c, status)
    \/ \E c \in Children, why \in RelayEnds : RelayStop(c, why)
    \/ \E c \in Children : RelayCancel(c)
    \/ \E c \in Children : RelayDestroy(c)

\* One child at a time, with its output and the thread that relays it.
NextRelay ==
    \/ /\ spawned < MaxRelayChildren
       /\ \E point \in PopenrwPoints : IoPopenrw(point)
    \/ /\ spawned < MaxRelayChildren
       /\ \E point \in PopenyieldPoints, out \in Outputs : IoPopenyield(point, out)
    \/ \E f \in Files, res \in {0, -1} : PCloseFile(f, res)
    \/ PCloseWait
    \/ \E c \in Children : ChildWrite(c)
    \/ \E c \in Children, status \in {0, 1} : ChildExit(c, status)
    \/ \E c \in Children, n \in 1..BufSize : RelayCopy(c, n)
    \/ \E c \in Children, why \in RelayEnds : RelayStop(c, why)
    \/ \E c \in Children : RelayCancel(c)
    \/ \E c \in Children : RelayDestroy(c)

(***************************************************************************)
(* word_classifications and lua_word_classifications.                      *)
(***************************************************************************)
\* A value of 'unsigned int' is held as the number with the same 32 bits in
\* two's complement: 0xFFFFFFFF is -1.  Addition and subtraction of 1 then
\* wrap where the numbers here can reach.
ult(a, b) == IF (a >= 0) = (b >= 0) THEN a < b ELSE a >= 0

\* enum class word_class, by the letters of c_faces; 'invalid' is not below
\* word_class::max.
to_word_class(wc) ==
    CASE wc = "o" -> "other"
      [] wc = "c" -> "command"
      [] wc = "d" -> "doskey"
      [] wc = "a" -> "arg"
      [] wc = "f" -> "flag"
      [] wc = "n" -> "none"
      [] OTHER -> "invalid"

\* The second argument of classifyword, as its characters.
ClassStrings ==
    {<<"o">>, <<"c">>, <<"d">>, <<"a">>, <<"f">>, <<"n">>, <<"m", "c">>, <<"m">>,
     <<"x">>, <<>>}

\* The optional boolean argument.
OverwriteArgs == {"omitted", "true", "false"}

\* bool overwrite = !lua_isboolean(state, n) || lua_toboolean(state, n);
overwrite_of(arg) == arg # "false"

\* The lua_word_classifications objects of a line of two commands of one
\* word each.
Wrappers ==
    {[m_index_offset |-> 0, m_command_word_index |-> 0, m_num_words |-> 1],
     [m_index_offset |-> 1, m_command_word_index |-> 0, m_num_words |-> 1]}

\* bool word_classifications::is_word_classified(unsigned int): on the
\* sequence 'info', whose first element is m_info[0].
is_word_classified(info, word_index) ==
    /\ ult(word_index, Len(info))
    /\ info[word_index + 1].word_class # "invalid"

\* void word_classifications::classify_word(unsigned int, char, bool)
classify_word(info, index, wc, overwrite) ==
    IF overwrite \/ ~is_word_classified(info, index)
    THEN [info EXCEPT ![index + 1].word_class = to_word_class(wc)]
    ELSE info

\* void word_classifications::set_word_has_argmatcher(unsigned int)
set_word_has_argmatcher(info, index) ==
    IF ult(index, Len(info)) THEN [info EXCEPT ![index + 1].argmatcher = TRUE]
    ELSE info

NoWordCall == [op |-> "none", applied |-> FALSE, word |-> 0, wc |-> "o",
               has_argmatcher |-> FALSE, overwrite |-> "omitted"]

\* int lua_word_classifications::classify_word(lua_State*), on the object
\* 'self' with the arguments word_index, s and overwrite.
ClassifyWord(self, word_index, str, overwrite_arg) ==
    LET index == word_index - 1
        overwrite == overwrite_of(overwrite_arg)
        has_argmatcher == str # <<>> /\ Head(str) = "m"
        s == IF has_argmatcher THEN Tail(str) ELSE str
        wc == IF s # <<>> /\ Head(s) \in {"o", "c", "d", "a", "f", "n"}
              THEN Head(s) ELSE "o"
        classified == classify_word(m_info, self.m_index_offset + index, wc,
                                    overwrite)
    IN  IF ~ult(index, self.m_num_words)
        THEN /\ wc_last' = [NoWordCall EXCEPT !.op = "classifyword"]
             /\ UNCHANGED m_info
        ELSE /\ m_info' =
                    IF has_argmatcher /\ index = self.m_command_word_index
                    THEN set_word_has_argmatcher(classified,
                                                 self.m_index_offset + index)
                    ELSE classified
             /\ wc_last' = [op |-> "classifyword", applied |-> TRUE,
                            word |-> self.m_index_offset + index + 1, wc |-> wc,
                            has_argmatcher |-> has_argmatcher,
                            overwrite |-> overwrite_arg]

\* word_classifications::add_command(), once for each command: the words of
\* the line "a&b", none classified.
InitWords ==
    /\ m_info = <<[start |-> 0, end |-> 1, word_class |-> "invalid",
                   argmatcher |-> FALSE],
                  [start |-> 2, end |-> 3, word_class |-> "invalid",
                   argmatcher |-> FALSE]>>
    /\ wc_last = NoWordCall

NextWords ==
    \E self \in Wrappers, word_index \in 0..2, str \in ClassStrings,
       overwrite_arg \in OverwriteArgs :
        ClassifyWord(self, word_index, str, overwrite_arg)

\* The SGR strings that scripts colour with.
Colors == {"7", "1;31"}

\* char ensure_face(const char*): the face, 0 for none, and the definitions
\* afterwards.  Nothing is ever put into m_face_map.
ensure_face(sgr) ==
    IF sgr \in DOMAIN m_face_map
    THEN [face |-> m_face_map[sgr], definitions |-> m_face_definitions]
    ELSE LET face == (FirstFace + Len(m_face_definitions)) % CharRange
         IN  IF face < FirstFace
             THEN [face |-> 0, definitions |-> m_face_definitions]
             ELSE [face |-> face,
                   definitions |-> Append(m_face_definitions, sgr)]

RECURSIVE apply_face(_, _, _, _, _)
\* void word_classifications::apply_face(unsigned, unsigned, char, bool): on
\* the sequence 'faces', whose first element is m_faces[0].
apply_face(faces, start, length, face, overwrite) ==
    IF length # 0 /\ ult(start, m_length)
    THEN apply_face(IF overwrite \/ faces[start + 1] = Blank
                    THEN [faces EXCEPT ![start + 1] = face] ELSE faces,
                    start + 1, length - 1, face, overwrite)
    ELSE faces

NoColorCall == [op |-> "none", start |-> 0, length |-> 0, color |-> "",
                face |-> 0, overwrite |-> "omitted"]

\* int lua_word_classifications::apply_color(lua_State*), with the
\* arguments start, length, color and overwrite.
ApplyColor(start_arg, length_arg, color, overwrite_arg) ==
    /\ color_calls < MaxColorCalls
    /\ color_calls' = color_calls + 1
    /\ LET start == start_arg - 1
           length == length_arg
           overwrite == overwrite_of(overwrite_arg)
           ensured == ensure_face(color)
       IN  /\ m_face_definitions' = ensured.definitions
           /\ m_faces' = IF ensured.face = 0 THEN m_faces
                         ELSE apply_face(m_faces, start, length, ensured.face,
                                         overwrite)
           /\ color_last' = [op |-> "applycolor", start |-> start_arg,
                             length |-> length_arg, color |-> color,
                             face |-> ensured.face, overwrite |-> overwrite_arg]
    /\ UNCHANGED <<m_length, m_face_map>>

\* word_classifications::init(LineLength), followed by n calls of
\* applycolor(1, 0, "7").
InitFaces(n) ==
    /\ m_faces = [i \in 1..LineLength |-> Blank]
    /\ m_length = LineLength
    /\ m_face_definitions = [i \in 1..n |-> "7"]
    /\ m_face_map = <<>>
    /\ color_calls = 0
    /\ color_last = NoColorCall

NextColor ==
    \E start_arg \in 0..(LineLength + 1), length_arg \in -1..LineLength,
       color \in Colors, overwrite_arg \in OverwriteArgs :
        ApplyColor(start_arg, length_arg, color, overwrite_arg)

\* static const char c_faces[]: the face of a word class, as its char code.
c_faces(word_class) ==
    CASE word_class = "other" -> 111
      [] word_class = "command" -> 99
      [] word_class = "doskey" -> 100
      [] word_class = "arg" -> 97
      [] word_class = "flag" -> 102
      [] word_class = "none" -> 110

\* The body of finish()'s outer loop for the word 'info', on the sequence
\* 'faces': the positions from info.start to min(info.end, m_length).
finish_word(faces, info, show_argmatchers) ==
    LET end == IF ult(info.end, m_length) THEN info.end ELSE m_length
    IN  [i \in 1..Len(faces) |->
            IF ~ult(i - 1, info.start) /\ ult(i - 1, end)
            THEN IF info.argmatcher /\ show_argmatchers
                 THEN ArgmatcherFace
                 ELSE IF faces[i] = Blank /\ info.word_class # "invalid"
                      THEN c_faces(info.word_class)
                      ELSE faces[i]
            ELSE faces[i]]

RECURSIVE finish(_, _, _)
\* void word_classifications::finish(bool): the faces after the loop over
\* the words 'info' that are left.
finish(faces, info, show_argmatchers) ==
    IF info = <<>> THEN faces
    ELSE finish(finish_word(faces, Head(info), show_argmatchers), Tail(info),
                show_argmatchers)

NoFinish == [op |-> "none", show_argmatchers |-> FALSE]

\* word_classifications::finish(show_argmatchers), called on the line.
Finish(show_argmatchers) ==
    /\ m_faces' = finish(m_faces, m_info, show_argmatchers)
    /\ finish_last' = [op |-> "finish", show_argmatchers |-> show_argmatchers]
    /\ UNCHANGED <<m_length, m_face_definitions, m_face_map, color_calls,
                   color_last>>
    /\ UNCHANGED vars_words

\* The colours and the classifications of the lines that finish() is
\* followed on: each word class for the first command, and each command
\* with and without an argmatcher.
FinishColors == {"7"}
FinishStrings(self) ==
    IF self.m_index_offset = 0
    THEN {<<"o">>, <<"c">>, <<"d">>, <<"a">>, <<"f">>, <<"n">>, <<"m", "c">>}
    ELSE {<<"c">>, <<"m", "c">>}

\* The classifiers of a line and the finish() call that follows them.
NextFinish ==
    \/ /\ \E self \in Wrappers : \E str \in FinishStrings(self) :
              ClassifyWord(self, 1, str, "omitted")
       /\ finish_last' = NoFinish
       /\ UNCHANGED vars_faces
    \/ /\ color_calls < MaxFinishColors
       /\ \E start_arg \in 1..LineLength, color \in FinishColors :
              ApplyColor(start_arg, 1, color, "omitted")
       /\ finish_last' = NoFinish
       /\ UNCHANGED vars_words
    \/ \E show_argmatchers \in BOOLEAN : Finish(show_argmatchers)

(***************************************************************************)
(* os.cpp: delay_load_mpr and os::get_net_connection_name.                 *)
(***************************************************************************)
\* A function pointer that ZeroMemory has cleared, and a 'const char*' that
\* is null.
NullProc == "null"
NullPath == "null"

NoNetCall == [op |-> "none", path |-> NullPath, drive_type |-> "none",
              wrapper |-> FALSE, invoked |-> "none", err |-> "none",
              ret |-> TRUE]

\* 'delay_load_mpr s_mpr' after its constructor.
InitMpr ==
    /\ m_initialized = FALSE
    /\ m_ok = FALSE
    /\ m_hlib = FALSE
    /\ m_procs = NullProc
    /\ os_errno = 0
    /\ net_out = ""
    /\ net_last = NoNetCall
    /\ net_crashed = FALSE

\* The fields of s_mpr as one value.
s_mpr ==
    [m_initialized |-> m_initialized, m_ok |-> m_ok, m_hlib |-> m_hlib,
     m_procs |-> m_procs]

\* bool delay_load_mpr::init(): s_mpr afterwards, where 'loads' says that
\* LoadLibrary("mpr.dll") succeeds and 'exported' that GetProcAddress finds
\* WNetGetConnectionW.  Its result is the m_ok of the value returned.
init(mpr, loads, exported) ==
    IF ~mpr.m_initialized
    THEN LET proc == IF loads /\ exported THEN "WNetGetConnectionW"
                     ELSE mpr.m_procs
         IN  [m_initialized |-> TRUE, m_ok |-> proc # NullProc,
              m_hlib |-> loads, m_procs |-> proc]
    ELSE mpr

\* What a call through a function pointer does: the function runs, or, the
\* pointer being null, anything.
invoke(proc) == IF proc = NullProc THEN "undefined" ELSE "function"

\* DWORD delay_load_mpr::WNetGetConnectionW(...): s_mpr afterwards and
\* whether the function pointer is invoked.
WNetGetConnectionW(mpr, loads, exported) ==
    LET after == init(mpr, loads, exported)
    IN  IF after.m_ok /\ after.m_procs = NullProc
        THEN [mpr |-> after, invoked |-> "none"]
        ELSE [mpr |-> after, invoked |-> invoke(after.m_procs)]

\* const char* path: null, empty, a local path, two paths on network drives
\* and a path of one character.
Paths ==
    {NullPath, <<>>, <<"C", ":", "x">>, <<"Y", ":">>, <<"Z", ":", "x">>,
     <<"Z">>}

\* What GetDriveTypeW can say of a drive.
DriveTypes == {"DRIVE_NO_ROOT_DIR", "DRIVE_FIXED", "DRIVE_REMOTE"}

\* The wide string 'remote' that mpr.dll writes, by its UTF-16 text.
Wide(text) == [utf16 |-> text]

\* to_utf8(out, remote)
to_utf8(wide) == wide.utf16

\* What mpr.dll's WNetGetConnectionW answers.
Answers ==
    {[err |-> "NO_ERROR", remote |-> Wide("\\\\srv\\share")],
     [err |-> "NO_ERROR", remote |-> Wide("\\\\nas\\home")],
     [err |-> "ERROR_NOT_CONNECTED", remote |-> Wide("")],
     [err |-> "ERROR_NOT_SUPPORTED", remote |-> Wide("")],
     [err |-> "ERROR_MORE_DATA", remote |-> Wide("")],
     [err |-> "ERROR_BAD_DEVICE", remote |-> Wide("")]}

\* What the call through a null pointer can come to: a fault that ends the
\* process, or a return with any value in 'err' and in 'remote'.
Fault == [err |-> "fault", remote |-> Wide("")]
UndefinedOutcomes == Answers \cup {Fault}

\* bool os::get_net_connection_name(const char* path, str_base& out), where
\* drive_type is what GetDriveTypeW answers, loads and exported what the
\* loader does at the first use of s_mpr, and answer what the call through
\* the function pointer comes to.
get_net_connection_name(path, drive_type, loads, exported, answer) ==
    LET drive0 == IF path # NullPath /\ path # <<>> THEN Head(path) ELSE ""
        called == WNetGetConnectionW(s_mpr, loads, exported)
        err == IF called.invoked = "none" THEN "ERROR_NOT_SUPPORTED"
               ELSE answer.err
        call == [NoNetCall EXCEPT !.op = "get_net_connection_name",
                                  !.path = path, !.drive_type = drive_type]
    IN  /\ ~net_crashed
        /\ IF drive0 = "" \/ drive_type # "DRIVE_REMOTE"
           THEN /\ os_errno' = 0
                /\ net_out' = ""
                /\ net_last' = call
                /\ UNCHANGED <<m_initialized, m_ok, m_hlib, m_procs,
                               net_crashed>>
           ELSE /\ called.invoked = "undefined" => answer \in UndefinedOutcomes
                /\ called.invoked = "function" => answer \in Answers
                /\ called.invoked = "none" => answer = Fault
                /\ m_initialized' = called.mpr.m_initialized
                /\ m_ok' = called.mpr.m_ok
                /\ m_hlib' = called.mpr.m_hlib
                /\ m_procs' = called.mpr.m_procs
                /\ net_crashed' = (err = "fault")
                /\ net_out' = IF err = "NO_ERROR" THEN to_utf8(answer.remote)
                              ELSE ""
                /\ os_errno' =
                       IF err \in {"NO_ERROR", "ERROR_NOT_CONNECTED",
                                   "ERROR_NOT_SUPPORTED", "fault"}
                       THEN 0 ELSE MappedErrno
                /\ net_last' =
                       [call EXCEPT !.wrapper = TRUE,
                                    !.invoked = called.invoked,
                                    !.err = err,
                                    !.ret = err \in {"NO_ERROR",
                                                     "ERROR_NOT_CONNECTED",
                                                     "ERROR_NOT_SUPPORTED"}]

NextMpr ==
    \E path \in Paths, drive_type \in DriveTypes, loads \in BOOLEAN,
       exported \in BOOLEAN, answer \in UndefinedOutcomes :
        get_net_connection_name(path, drive_type, loads, exported, answer)

InitHistory ==
    /\ h_slot = [k \in Keys |-> "none"]
    /\ h_cleared = {}
    /\ h_quiet = {}
    /\ h_disturbed = FALSE
    /\ h_confirmed = {}
    /\ h_inflight = FALSE
    /\ h_actor = "none"
    /\ h_access = FALSE
    /\ h_ids = {}
    /\ h_raised = FALSE
    /\ h_stored = {}

\* std::recursive_mutex m_mutex: unowned after construction.
InitLock ==
    /\ m_mutex = "none"
    /\ lk_main = "out"
    /\ lk_worker = "out"

InitBase ==
    /\ InitSuggest /\ InitToolkit /\ InitRecognizer /\ InitLock /\ InitHistory
    /\ InitIdle
    /\ InitPopen
    /\ InitWords
    /\ finish_last = NoFinish
    /\ InitMpr

Init == InitBase /\ InitFaces(0)

\* The line before an applycolor call that is not the first: earlier calls
\* with an empty range have defined faces and coloured nothing.
InitColor == InitBase /\ \E n \in {0, FaceLimit - 1} : InitFaces(n)

(***************************************************************************)
(* History variables.  Each is written as a function of the step just      *)
(* taken and is read by no action.                                         *)
(***************************************************************************)
EnqueueAccepted == last'.op = "enqueue" /\ last'.ret
WorkerDequeued == pc_worker = "dequeue" /\ pc_worker' = "resolve"
WorkerDrained == pc_worker = "dequeue" /\ pc_worker' = "wait"
ClearCalled == last'.op = "clear"
ShutdownCalled == last'.op = "shutdown"

\* h_slot[k]: "queued" while k's latest request sits in the slot,
\* "superseded" once another key's request has overwritten it there,
\* "drained" once the worker has since found the slot empty, "none" else.
SlotNext ==
    [k \in Keys |->
        IF EnqueueAccepted
        THEN (IF k = last'.key THEN "queued"
              ELSE IF h_slot[k] = "queued" THEN "superseded"
              ELSE h_slot[k])
        ELSE IF WorkerDequeued
        THEN (IF h_slot[k] = "queued" THEN "none" ELSE h_slot[k])
        ELSE IF WorkerDrained
        THEN (IF h_slot[k] = "superseded" THEN "drained" ELSE h_slot[k])
        ELSE h_slot[k]]

\* Keys the worker holds a request for: in the slot, or dequeued and not stored.
WorkerHeld ==
    {m_queue.m_key} \cup (IF pc_worker = "resolve" THEN {entry.m_key} ELSE {})

ClearedNext ==
    IF ClearCalled THEN (DOMAIN m_cache) \cup (DOMAIN m_pending)
    ELSE IF EnqueueAccepted THEN h_cleared \ {last'.key}
    ELSE h_cleared

QuietNext ==
    IF ClearCalled THEN ((DOMAIN m_cache) \cup (DOMAIN m_pending)) \ WorkerHeld
    ELSE IF EnqueueAccepted THEN h_quiet \ {last'.key}
    ELSE h_quiet

DisturbedNext ==
    IF ClearCalled \/ ShutdownCalled THEN TRUE
    ELSE IF WorkerDequeued THEN FALSE
    ELSE h_disturbed

\* A step of suggest(): it is the only one that moves the generation id on.
SuggestCalled == generation' # generation

IdsNext ==
    IF SuggestCalled THEN h_ids \cup {generation'} ELSE h_ids

ConfirmedNext ==
    IF ShutdownCalled THEN DOMAIN m_cache ELSE h_confirmed

InflightNext ==
    IF ShutdownCalled THEN pc_worker = "resolve" ELSE h_inflight

\* With the mutex followed: the step in which the main thread runs the
\* locked block of function op and leaves it.  A step in which store()
\* filed a classification, and one in which the worker called
\* notify_ready(true).
MainCalled(op) == lk_main = op /\ lk_main' = "out"
StoreSucceeded ==
    \/ MainCalled("enqueue") /\ EnqueueAccepted /\ last'.key \in DOMAIN m_pending'
    \/ /\ pc_worker = "resolve" /\ pc_worker' = "notify"
       /\ entry.m_key \in DOMAIN m_cache'
WorkerNotified == pc_worker = "notify" /\ pc_worker' = "dequeue"

RaisedNext ==
    IF MainCalled("need_refresh") THEN FALSE
    ELSE IF StoreSucceeded \/ WorkerNotified THEN TRUE
    ELSE h_raised

\* A step in which linear_allocator::reset() released stored keys, and one
\* in which linear_allocator::store() copied a key.
ArenaReleased == m_heap' # m_heap /\ m_heap' = HeapReset(m_heap)
ArenaStored == m_heap' # m_heap /\ ~ArenaReleased

StoredNext ==
    IF ArenaReleased THEN {}
    ELSE IF ArenaStored
    THEN h_stored \cup ((DOMAIN m_cache' \ DOMAIN m_cache)
                            \cup (DOMAIN m_pending' \ DOMAIN m_pending))
    ELSE h_stored

(***************************************************************************)
(* Specifications.                                                         *)
(***************************************************************************)
\* A step of the recognizer leaves the rest alone.
RecognizerOnly ==
    UNCHANGED <<vars_suggest, vars_toolkit, vars_lock, vars_history, vars_rest>>

\* The suggester alone.
SpecSuggest ==
    Init /\ [][NextSuggest /\ UNCHANGED <<vars_rest, vars_toolkit, vars_recognizer, vars_lock,
                                      vars_history>>]_vars

\* The suggester with the ownership of its toolkits.
SpecToolkit ==
    Init /\ [][NextToolkit /\ UNCHANGED <<vars_rest, vars_recognizer, vars_lock,
                                      vars_history>>]_vars

\* The suggester, following the generation ids of its requests.
SpecGeneration ==
    Init /\ [][/\ NextSuggest
               /\ h_ids' = IdsNext
               /\ UNCHANGED <<vars_rest, vars_toolkit, vars_recognizer, vars_lock,
                              h_slot, h_cleared, h_quiet, h_disturbed, h_confirmed, h_inflight,
                              h_actor, h_access>>]_vars

\* The idle driver alone.
SpecIdle ==
    Init /\ [][NextIdle /\ UNCHANGED <<vars_core, vars_popen, vars_words,
                                       vars_faces, vars_finish,
                                       vars_mpr, vars_watch>>]_vars

\* The popen functions, their children and their relay threads.
SpecPopen ==
    Init /\ [][NextPopen /\ UNCHANGED <<vars_core, vars_idle, vars_words,
                                        vars_faces, vars_finish,
                                       vars_mpr, vars_watch>>]_vars

\* The relay thread of io.popenyield and the bytes it copies.
SpecRelay ==
    Init /\ [][NextRelay /\ UNCHANGED <<vars_core, vars_idle, vars_words,
                                        vars_faces, vars_finish,
                                       vars_mpr, vars_watch>>]_vars

\* word_classifications:classifyword on the words of a line.
SpecWords ==
    Init /\ [][NextWords /\ UNCHANGED <<vars_core, vars_idle, vars_popen,
                                        vars_faces, vars_finish,
                                       vars_mpr, vars_watch>>]_vars

\* word_classifications:applycolor, from a line with no face definition yet
\* and from a line that has all but one of them.
SpecColor ==
    InitColor /\ [][NextColor /\ UNCHANGED <<vars_core, vars_idle, vars_popen,
                                             vars_words, vars_finish,
                                             vars_mpr, vars_watch>>]_vars

\* The classifiers and finish() on one line.
SpecFinish ==
    Init /\ [][NextFinish /\ UNCHANGED <<vars_core, vars_idle, vars_popen,
                                         vars_mpr, vars_watch>>]_vars

\* os::get_net_connection_name and the delay-loaded mpr.dll behind it.
SpecMpr ==
    Init /\ [][NextMpr /\ UNCHANGED <<vars_core, vars_idle, vars_popen,
                                      vars_words, vars_faces, vars_finish,
                                      vars_watch>>]_vars

\* The recognizer alone, without history.
Spec ==
    Init /\ [][NextRecognizer /\ RecognizerOnly]_vars

\* The recognizer, following the requests in the work slot.
SpecSlot ==
    Init /\ [][/\ NextRecognizer
               /\ h_slot' = SlotNext
               /\ UNCHANGED <<vars_rest, vars_suggest, vars_toolkit, vars_lock, h_cleared, h_quiet,
                              h_disturbed, h_confirmed, h_inflight,
                              h_actor, h_access, h_ids>>]_vars

\* The recognizer, following the keys cached at the last clear().
SpecClear ==
    Init /\ [][/\ NextRecognizer
               /\ h_cleared' = ClearedNext
               /\ h_quiet' = QuietNext
               /\ UNCHANGED <<vars_rest, vars_suggest, vars_toolkit, vars_lock, h_slot, h_disturbed,
                              h_confirmed, h_inflight, h_actor,
                              h_access, h_ids>>]_vars

\* The recognizer, following each resolution and the keys confirmed at shutdown.
SpecResolve ==
    Init /\ [][/\ NextRecognizer
               /\ h_disturbed' = DisturbedNext
               /\ h_confirmed' = ConfirmedNext
               /\ h_inflight' = InflightNext
               /\ UNCHANGED <<vars_rest, vars_suggest, vars_toolkit, vars_lock, h_slot, h_cleared,
                              h_quiet, h_actor, h_access, h_ids>>]_vars

\* The recognizer as clink._recognize_command drives it.
SpecQuery == Init /\ [][NextQuery /\ RecognizerOnly]_vars

\* The recognizer with its mutex, following who touches the shared state.
SpecLock ==
    Init /\ [][/\ NextLock
               /\ UNCHANGED <<vars_rest, vars_suggest, vars_toolkit, h_slot, h_cleared,
                              h_quiet, h_disturbed, h_confirmed, h_inflight,
                              h_ids>>]_vars

\* The whole recognizer with its mutex, following the flag and the arena.
SpecWhole ==
    Init /\ [][/\ NextWhole
               /\ h_raised' = RaisedNext
               /\ h_stored' = StoredNext
               /\ UNCHANGED <<vars_suggest, vars_toolkit, vars_idle,
                              vars_popen, vars_words, vars_faces,
                              vars_finish, vars_mpr, h_slot,
                              h_cleared, h_quiet, h_disturbed, h_confirmed,
                              h_inflight, h_ids>>]_vars

\* The recognizer with its scheduling: a thread that can take a step is
\* eventually run.  No fairness for the calls the host may or may not make,
\* nor for a failing wait.
FairSpec ==
    /\ Spec
    /\ WF_vars(WorkerStep /\ RecognizerOnly)
    /\ WF_vars(SD_Join /\ RecognizerOnly)
    /\ WF_vars(SD_Close /\ RecognizerOnly)

\* end_line() with its scheduling: the main thread runs when it can, the
\* tick count advances; the worker may stall for ever.
SpecEndLine ==
    /\ Init
    /\ [][NextEndLine /\ RecognizerOnly]_vars
    /\ WF_vars(EL_Loop /\ RecognizerOnly)
    /\ WF_vars(EL_WaitSignalled /\ RecognizerOnly)
    /\ WF_vars(EL_WaitTimeout /\ RecognizerOnly)
    /\ WF_vars(EL_Check /\ RecognizerOnly)
    /\ WF_vars(EL_Return /\ RecognizerOnly)
    /\ WF_vars(Tick /\ RecognizerOnly)

(***************************************************************************)
(* Properties.                                                             *)
(***************************************************************************)
InEndLine == pc_main \in {"el_loop", "el_wait", "el_reclassify", "el_final"}

\* C1: generation staleness.  Once a request with a later generation id has
\* begun, get_deferred_matches(g1) returns no toolkit for every earlier id g1,
\* and a deferred computation that asks under a stale id is given none.
C1_StaleGenerationRejected ==
    /\ \A g1 \in 1..MaxGen :
           g1 < generation => get_deferred_matches(g1) = NoToolkit
    /\ (got.gen # 0 /\ got.gen < got.current) => got.toolkit = NoToolkit

\* A deferred computation of an earlier request asked while a later request's
\* toolkit was active.
C1_Witness ==
    /\ got.gen # 0
    /\ got.gen < got.current
    /\ s_toolkit # NoToolkit

\* C2, as stated: once the worker has found the slot empty, find(k1) returns
\* not-found for a key k1 whose request was overwritten in the slot.
C2_Original ==
    \A k \in Keys : h_slot[k] = "drained" => ~find(k).found

\* C2, amended: the overwritten request of k1 is gone from the slot (so the
\* worker never resolves it); once the worker has found the slot empty k1 is
\* not pending, and find(k1) returns not-found unless k1 is in the confirmed
\* map through another request.
C2_SupersededNeverResolved ==
    \A k \in Keys :
        /\ h_slot[k] \in {"superseded", "drained"} => m_queue.m_key # k
        /\ h_slot[k] = "drained" =>
               /\ k \notin DOMAIN m_pending
               /\ k \notin DOMAIN m_cache => ~find(k).found

\* k1 was overwritten by k2, the worker resolved k2 and drained the slot.
C2_Witness ==
    \E k1, k2 \in Keys :
        /\ k1 # k2
        /\ h_slot[k1] = "drained"
        /\ ~find(k1).found
        /\ k2 \in DOMAIN m_cache
        /\ ~m_zombie

\* C3: after shutdown() has set the zombie flag and signalled the work event,
\* the worker leaves proc() and the join completes: shutdown() returns.
C3_ShutdownReturns == m_zombie ~> (pc_main = "sd_done")

\* C4: once the zombie flag is set, find returns not-found for every key and
\* enqueue returns false.
C4_ShutdownTerminal ==
    m_zombie =>
        /\ \A k \in Keys : ~find(k).found
        /\ last.op \in {"find", "enqueue"} => ~last.ret
        /\ last.op # "enqueue_threw"

\* find was called after shutdown for a key that was confirmed before it.
C4_Witness ==
    /\ m_zombie
    /\ last.op = "find"
    /\ last.key \in h_confirmed

C6_ResolvedIsClassified ==
    (/\ pc_worker = "dequeue"
     /\ entry # EmptyEntry
     /\ ~h_disturbed
     /\ m_heap.m_used < HeapPageSize)
        => /\ entry.m_key \in DOMAIN m_cache
           /\ m_cache[entry.m_key] \in {1, -1}

\* C7: end_line() always returns, and its wait never reaches past the budget
\* measured from entry.
C7_EndLineReturns ==
    /\ [](pc_main = "el_wait" => wait_until <= EndLineBudgetMs)
    /\ InEndLine ~> (pc_main = "idle")

\* end_line() has left its loop on the budget while the worker still holds a
\* request and never signalled.
C7_Witness ==
    /\ pc_main = "el_final"
    /\ m_processing
    /\ ~ready_signalled
    /\ elapsed >= EndLineBudgetMs

\* C8: find(key) returns the confirmed classification whenever key is in the
\* confirmed map, else the pending value when key is pending, and not-found
\* exactly when key is in neither map.
C8_LookupOrder ==
    /\ \A k \in Keys :
        /\ k \in DOMAIN m_cache =>
               find(k) = [found |-> TRUE, cached |-> m_cache[k]]
        /\ (k \notin DOMAIN m_cache /\ k \in DOMAIN m_pending) =>
               find(k) = [found |-> TRUE, cached |-> m_pending[k]]
        /\ ~find(k).found <=>
               (k \notin DOMAIN m_cache /\ k \notin DOMAIN m_pending)
    /\ (last.op = "find" /\ last.key \in DOMAIN m_cache) =>
           (last.ret /\ last.cached = m_cache[last.key])

\* find was called for a key that is confirmed as recognized and still
\* pending as -1.
C8_Witness ==
    \E k \in Keys :
        /\ k \in DOMAIN m_cache
        /\ k \in DOMAIN m_pending
        /\ m_cache[k] # m_pending[k]
        /\ last = Call("find", k, TRUE, m_cache[k])

C10_AcceptedEnqueueEffects ==
    (last.op = "enqueue" /\ last.ret) =>
        /\ last.key \in DOMAIN m_pending
        /\ m_pending[last.key] = -1
        /\ m_queue = MakeEntry(last.key, ExpandEnv(last.key))
        /\ m_thread
        /\ pc_worker # "none"
        /\ m_event_signalled

\* C11: enqueue returns false when the recognizer is a zombie, when the ready
\* event was never created, or when the work event does not exist after the
\* call (CreateEvent gave no handle); a rejected enqueue leaves both maps, the
\* work slot and the worker thread as they were.
C11_RejectedEnqueueChangesNothing ==
    [][(last'.op = "enqueue") =>
          /\ (m_zombie \/ ~s_ready_event \/ m_event' = "null") => ~last'.ret
          /\ ~last'.ret =>
                 UNCHANGED <<m_cache, m_pending, m_queue, m_thread, pc_worker>>]_vars

\* enqueue was rejected because the work event could not be created, the
\* recognizer being usable.
C11_Witness ==
    /\ last.op = "enqueue"
    /\ ~last.ret
    /\ usable
    /\ m_event = "null"

\* C12: once the zombie flag is set the worker takes no request out of the
\* slot and no step of any thread adds a key to the confirmed or the pending
\* map (both are empty from shutdown() on), the store of a resolution that
\* was in flight when shutdown() ran included.
C12_ZombieWorkerAbandons ==
    /\ [](m_zombie => (m_cache = EmptyMap /\ m_pending = EmptyMap))
    /\ [][m_zombie =>
             /\ ~WorkerDequeued
             /\ m_queue' = m_queue
             /\ DOMAIN m_cache' \subseteq DOMAIN m_cache
             /\ DOMAIN m_pending' \subseteq DOMAIN m_pending]_vars

\* The worker was resolving a request when shutdown() ran and has since been
\* through its store().
C12_Witness ==
    /\ m_zombie
    /\ h_inflight
    /\ pc_worker = "notify"
    /\ entry # EmptyEntry

\* C13: when the worker, the recognizer not being a zombie, finds the work
\* slot empty, that step empties the pending map, clears m_processing and
\* sets the ready event, and find reports not-found for every key that was in
\* the pending map only.
C13_DrainRevertsPending ==
    [][(WorkerDrained /\ ~m_zombie) =>
          /\ m_queue = EmptyEntry
          /\ m_pending' = EmptyMap
          /\ ~m_processing'
          /\ ready_signalled'
          /\ \A k \in (DOMAIN m_pending) \ (DOMAIN m_cache) : ~(find(k).found)']_vars

\* The worker has found the slot empty and is waiting again: the ready event
\* is set, and a key whose request was overwritten in the slot, pending until
\* then, is not found.
C13_Witness ==
    /\ pc_worker = "wait"
    /\ ~m_zombie
    /\ ~m_processing
    /\ ready_signalled
    /\ m_queue = EmptyEntry
    /\ m_pending = EmptyMap
    /\ \E k \in Keys : h_slot[k] = "drained" /\ ~find(k).found

\* The maps, the work slot and the key arena.
Protected == <<m_cache, m_pending, m_queue, m_heap>>

\* C14: every step that reads or writes the confirmed map, the pending map,
\* the work slot or the key arena is taken by a thread that holds m_mutex at
\* that moment, and the two threads are never inside a locked block together.
C14_LockProtection ==
    /\ [](~(lk_main # "out" /\ lk_worker # "out"))
    /\ [][(h_access' \/ Protected' # Protected) =>
             (m_mutex # "none" /\ m_mutex = h_actor')]_vars

\* The main thread is inside enqueue() holding the mutex while the worker,
\* with a result to store for a request it resolved, is outside every lock.
C14_Witness ==
    /\ m_mutex = "main"
    /\ lk_main = "enqueue"
    /\ pc_worker = "resolve"
    /\ WorkerOp = "store"
    /\ lk_worker = "out"
    /\ m_cache # EmptyMap

\* C15: when the worker thread could not be started during enqueue (the call
\* recorded as "enqueue_threw": std::thread's constructor failed), the
\* recognizer is a zombie from that call on.
C15_ThreadStartFailureIsZombie ==
    (last.op = "enqueue_threw") => m_zombie

\* C16: when enqueue could not record the provisional entry (the arena had
\* no room for the key and could not get a page, so that the key is not in
\* the pending map when the call returns), enqueue has returned false.
C16_AllocationFailureReported ==
    (last.op = "enqueue" /\ last.key \notin DOMAIN m_pending) => ~last.ret

\* C17: clink._recognize_command never waits for the worker (it can run to
\* its end from every point where the host can call it, whatever the worker
\* is doing), and for a word whose resolution is pending (the word is in the
\* pending map and not in the confirmed map when the call returns) it returns
\* the 'not yet known' outcome, not 'recognized' or 'not recognized'.
C17_PendingIsNotYetKnown ==
    /\ pc_main \in CallPoints =>
           \A word \in Words :
               ENABLED (\E event_ok \in EventOutcomes,
                          thread_ok \in ThreadOutcomes,
                          malloc_ok \in MallocOutcomes :
                            RecognizeCommand(word, event_ok, thread_ok, malloc_ok))
    /\ (/\ last.op = "recognize_command"
        /\ last.key \in DOMAIN m_pending
        /\ last.key \notin DOMAIN m_cache)
           => last.cached = RcUnknown

\* C18, as stated: every suggest() call carrying generation id g leaves an
\* active toolkit tagged g.
C18_Original ==
    [][SuggestCalled =>
          s_toolkit' = make_match_builder_toolkit(generation')]_vars

\* C18, amended: every suggest() call carrying g discards the previously
\* active toolkit (get_deferred_matches returns none for every other id);
\* when the line is not empty and no matches are supplied it leaves exactly
\* one active toolkit, tagged g, and otherwise none; get_deferred_matches(g)
\* returns the toolkit left, and no step other than suggest() and
\* reset_suggester() changes it.
C18_SuggestReplacesToolkit ==
    [][/\ SuggestCalled =>
             \A g \in 1..MaxGen :
                 /\ g # generation' => get_deferred_matches(g)' = NoToolkit
                 /\ (g = generation' /\ req'.line_length # 0 /\ ~req'.has_matches) =>
                        /\ s_toolkit' = make_match_builder_toolkit(g)
                        /\ get_deferred_matches(g)' = s_toolkit'
                 /\ (g = generation' /\ (req'.line_length = 0 \/ req'.has_matches)) =>
                        /\ s_toolkit' = NoToolkit
                        /\ get_deferred_matches(g)' = NoToolkit
       /\ got'.gen # 0 => s_toolkit' = s_toolkit]_vars

\* A suggest() call with matches supplied has discarded the toolkit of the
\* request before it, whose deferred computation is still running.
C18_Witness ==
    /\ generation >= 2
    /\ req = [line_length |-> 1, has_matches |-> TRUE]
    /\ s_toolkit = NoToolkit
    /\ (generation - 1) \in deferred
    /\ got.gen = 0

C20_RetiredToolkitOutlives ==
    \A g \in 1..MaxGen :
        /\ holders[g] > 0 => g \in alive
        /\ g \in alive <=> use_count(g, s_toolkit, holders) > 0

\* suggest() has replaced the toolkit of an earlier request while a Lua
\* object still holds it: the earlier toolkit and the active one both exist.
C20_Witness ==
    \E g \in 1..MaxGen :
        /\ g < generation
        /\ holders[g] > 0
        /\ g \in alive
        /\ s_toolkit # NoToolkit
        /\ s_toolkit.generation_id = generation
        /\ generation \in alive

\* A step of get_timeout(): the only operation that counts an iteration.
GetTimeoutStep == m_iterations' = m_iterations + 1

\* A step of kick_idle().
KickStep == idle_last'.op = "kick"

\* C21: the driver starts enabled; a get_timeout() at which the script layer
\* reports no coroutines returns INFINITE and leaves the driver disabled,
\* whether it was enabled before (the first such check) or disabled already.
C21_NoCoroutinesDisables ==
    /\ (s_idle = TRUE /\ m_enabled = TRUE)
    /\ [][/\ (~s_idle /\ s_idle') => m_enabled'
          /\ (GetTimeoutStep /\ ~has_coroutines) =>
                 /\ ~m_enabled'
                 /\ idle_last'.timeout = INFINITE]_vars

\* A later get_timeout() of a driver that an earlier one had disabled: it
\* returned INFINITE without asking the script layer, which has no
\* coroutines, and the driver is still disabled.
C21_Witness ==
    /\ idle_last.op = "get_timeout"
    /\ ~idle_last.asked
    /\ idle_last.timeout = INFINITE
    /\ m_iterations >= 2
    /\ ~has_coroutines
    /\ ~m_enabled

\* The duration in whole milliseconds, 0 for a non-positive one.
WholeMs(answer) == Ms(IF answer.usec > 0 THEN answer.usec \div 1000 ELSE 0)

C23_Original ==
    [][(KickStep /\ s_idle /\ ~m_enabled) => m_enabled']_vars

\* C23: kick() on a disabled driver enables it exactly when the script
\* layer reports coroutines at that moment, and get_timeout() asks the
\* script layer exactly when the driver is enabled.
C23_KickEnablesWhenCoroutines ==
    [][/\ (KickStep /\ s_idle /\ ~m_enabled) => (m_enabled' <=> has_coroutines)
       /\ (KickStep /\ (~s_idle \/ m_enabled)) => (m_enabled' <=> m_enabled)
       /\ GetTimeoutStep => (idle_last'.asked <=> m_enabled)]_vars

\* kick() has found the driver disabled and coroutines pending, and has
\* enabled it.
C23_Witness ==
    /\ idle_last.op = "kick"
    /\ idle_last.asked
    /\ has_coroutines
    /\ m_enabled

\* TRUE iff the list holds the association of child c.
registered(c) == \E i \in 1..Len(s_head) : s_head[i].id = c

\* The step on which the association of child c is removed and deleted.
FinalClose(c) == h_cleanups'[c] = h_cleanups[c] + 1

\* C24: for every spawned child the wait for, and release of, its process
\* handle happens exactly once, on the close that leaves none of its streams
\* open: while a stream is open the association is registered and the
\* handle has not been waited for, and once pclosefile has returned from
\* the last close the handle has been waited for and released.
C24_ProcessCleanedUpOnce ==
    \A c \in 1..spawned :
        /\ h_cleanups[c] <= 1
        /\ registered(c) =>
               h_cleanups[c] = 0 /\ c \in proc_handles /\ procs[c].state # "reaped"
        /\ (~registered(c) /\ pc_lua # c) =>
               h_cleanups[c] = 1 /\ c \notin proc_handles /\ procs[c].state = "reaped"

FailedSpawn == popen_last'.op \in {"popenrw", "popenyield"} /\ popen_last'.child = 0

C27_RelayCopiesEverything ==
    \A c \in Children :
        (relays[c].state \in {"done", "destroyed"} /\ relays[c].why = "eof") =>
            /\ spool[c] = procs[c].sent
            /\ procs[c].out = <<>>
            /\ pipes[c] = <<>>
            /\ relays[c].m_write = 0
            /\ handles_open = Cardinality({d \in Children : relays[d].m_write # 0})

\* The thread has relayed three bytes to the end of the stream.
C27_Witness ==
    \E c \in Children :
        /\ relays[c].state = "done"
        /\ relays[c].why = "eof"
        /\ ~relays[c].canceled
        /\ Len(procs[c].sent) = MaxOut
        /\ spool[c] = SubSeq(Text, 1, MaxOut)

\* C30: between the calls the list holds exactly the associations of the
\* children that have a stream open, each with its process handle; find()
\* gives every open stream its own association; and an association has left
\* the list, exactly once, when its last stream has been closed.
C30_RegistryInvariant ==
    /\ \A i \in 1..Len(s_head) :
           /\ s_head[i].r # 0 \/ s_head[i].w # 0
           /\ s_head[i].process_handle # 0
           /\ s_head[i].process_handle \in proc_handles
           /\ ({s_head[i].r, s_head[i].w} \ {0}) \subseteq lua_streams
           /\ \A j \in 1..Len(s_head) :
                  i # j => /\ s_head[i].id # s_head[j].id
                           /\ ({s_head[i].r, s_head[i].w} \ {0})
                                  \cap {s_head[j].r, s_head[j].w} = {}
    /\ \A f \in lua_streams :
           /\ f \in files_open
           /\ popenrw_find(s_head, f) # NoInfo
           /\ f \in {popenrw_find(s_head, f).r, popenrw_find(s_head, f).w}
    /\ \A c \in Children :
           /\ h_cleanups[c] <= 1
           /\ registered(c) <=> (c <= spawned /\ h_cleanups[c] = 0)

\* The first child is gone from the list, and the second, whose streams
\* took the places of the first child's, has closed its reading stream only.
C30_Witness ==
    /\ h_cleanups[1] = 1
    /\ Len(s_head) = 1
    /\ s_head[1].id = 2
    /\ s_head[1].r = 0
    /\ s_head[1].w \in lua_streams
    /\ s_head[1].w <= 2

\* A classifyword call that got past its argument checks.
ClassifyStep == wc_last'.op = "classifyword" /\ wc_last'.applied

\* C28: classifyword with overwrite = false leaves a word that is
\* classified already as it is and classifies one that is not; with
\* overwrite omitted or true it always gives the word the class asked for;
\* no other word changes.
C28_OverwriteFalseKeepsWord ==
    [][ClassifyStep =>
           /\ \A i \in 1..Len(m_info) :
                  i # wc_last'.word => m_info'[i] = m_info[i]
           /\ IF /\ wc_last'.overwrite = "false"
                 /\ m_info[wc_last'.word].word_class # "invalid"
              THEN m_info'[wc_last'.word] = m_info[wc_last'.word]
              ELSE m_info'[wc_last'.word].word_class =
                       to_word_class(wc_last'.wc)]_vars

\* An applycolor call whose range starts at a position and has a length.
ColorStep ==
    /\ color_calls' = color_calls + 1
    /\ color_last'.start >= 1
    /\ color_last'.length >= 0

\* TRUE iff 'face' is a face defined as 'color'.
face_is(face, definitions, color) ==
    /\ face >= FirstFace
    /\ face - FirstFace + 1 \in 1..Len(definitions)
    /\ definitions[face - FirstFace + 1] = color

\* C29: applycolor gives its colour to the positions of the range start ..
\* start + length - 1 that have no colour yet, and with overwrite omitted or
\* true to every position of the range; every other position, in the range
\* or not, keeps its face.
C29_ColorsTheRange ==
    [][ColorStep =>
           \A i \in 1..LineLength :
               IF /\ color_last'.start <= i
                  /\ i < color_last'.start + color_last'.length
                  /\ color_last'.overwrite # "false" \/ m_faces[i] = Blank
               THEN face_is(m_faces'[i], m_face_definitions', color_last'.color)
               ELSE m_faces'[i] = m_faces[i]]_vars

\* C31: reset() re-arms the driver.  The yield subsystem never holds a
\* closed handle.  Between the two halves of reset() the driver is enabled
\* with no iterations counted, the new event is published, the old event
\* is still open, and a new handle differs from the old one.  When
\* reset() has returned the driver is enabled with no iterations counted
\* and the published event is m_event, open if it was created.
C31_ResetRearms ==
    /\ yield_wake_event # 0 => yield_wake_event \in open_events
    /\ reset_pc = 1 =>
           /\ m_enabled
           /\ m_iterations = 0
           /\ yield_wake_event = m_idle_event
           /\ old_event # 0 => old_event \in open_events
           /\ m_idle_event # 0 => m_idle_event # old_event
    /\ idle_last.op = "reset" =>
           /\ m_enabled
           /\ m_iterations = 0
           /\ yield_wake_event = m_idle_event
           /\ m_idle_event # 0 => m_idle_event \in open_events

\* reset() on a driver that has an event: the new event exists and is
\* published while the old handle is still open.
C31_Witness ==
    /\ reset_pc = 1
    /\ old_event # 0
    /\ m_idle_event # 0
    /\ yield_wake_event = m_idle_event
    /\ {old_event, m_idle_event} \subseteq open_events

\* C32: the driver is enabled whenever on_idle() runs.
C32_OnIdleAssertionHolds ==
    idle_last.op = "on_idle" => m_enabled

\* C33: no thread holds the recognizer's mutex while it waits on the work
\* event, waits on the ready event or joins the worker; whoever holds the
\* mutex is inside a locked block, which it can finish without waiting for
\* the other thread.
C33_NoBlockingUnderLock ==
    /\ pc_worker = "wait" => (m_mutex # "worker" /\ lk_worker = "out")
    /\ pc_main \in {"el_wait", "sd_join"} =>
           (m_mutex # "main" /\ lk_main = "out")
    /\ m_mutex = "worker" =>
           (lk_worker # "out" /\ pc_worker \in {"dequeue", "resolve", "notify"})
    /\ m_mutex = "main" => (lk_main # "out" /\ pc_main \in MainOpPoints(lk_main))

\* shutdown() is joining a worker that holds the mutex in proc()'s block.
C33_Witness ==
    /\ pc_main = "sd_join"
    /\ sd_thread
    /\ m_mutex = "worker"
    /\ lk_worker = "proc"

\* C34: need_refresh() returns true exactly when a store or a notification
\* of the worker has raised the result-available flag since the previous
\* need_refresh(), and it leaves the flag lowered; two calls with nothing
\* raised in between do not both return true.
C34_NeedRefreshConsumes ==
    [][MainCalled("need_refresh") =>
           /\ last'.op = "need_refresh"
           /\ last'.ret = h_raised
           /\ ~m_result_available'
           /\ ~h_raised'
           /\ (last.op = "need_refresh" /\ last.ret) => ~last'.ret]_vars

\* need_refresh() has returned true after a notification of the worker, the
\* one before it having consumed the flag that enqueue()'s store raised.
C34_Witness ==
    /\ last.op = "need_refresh"
    /\ last.ret
    /\ ~m_result_available
    /\ ~h_raised
    /\ pc_worker = "dequeue"
    /\ m_processing
    /\ m_cache # EmptyMap
    /\ ~ready_signalled

\* C35: when need_refresh() returns the ready event is not signalled, and
\* it becomes signalled again only when a result is stored or notified or
\* when the worker reports idle.
C35_ReadyResetByNeedRefresh ==
    [][/\ MainCalled("need_refresh") => ~ready_signalled'
       /\ (~ready_signalled /\ ready_signalled') =>
              (StoreSucceeded \/ WorkerNotified \/ WorkerDrained)]_vars

\* The worker is between a successful dequeue and its next failed one: it
\* holds the request it dequeued.
WorkerHolds ==
    /\ pc_worker \in {"dequeue", "resolve", "notify"}
    /\ entry # EmptyEntry

\* A step in which end_line() decides, at entry or at the loop's end, to
\* go round the wait loop.
DecidesToWait == pc_main \in {"idle", "el_reclassify"} /\ pc_main' = "el_loop"

\* C36 as stated: m_processing is set exactly while the worker holds a
\* dequeued request, and end_line() enters its wait only while the worker
\* holds one and the recognizer is no zombie.
C36_Original ==
    /\ [](m_processing <=> WorkerHolds)
    /\ [][(pc_main = "el_loop" /\ pc_main' = "el_wait") =>
              (WorkerHolds /\ ~m_zombie)]_vars

\* C36: m_processing is set exactly while the worker holds a dequeued
\* request, and never while the worker is blocked on the work event;
\* end_line() decides to wait only under the mutex, with m_processing set
\* and no zombie; a worker that has gone idle since leaves the ready event
\* signalled for the wait.
C36_ProcessingTracksWorker ==
    /\ [](m_processing <=> WorkerHolds)
    /\ [](pc_worker \in {"none", "wait", "exited"} => ~m_processing)
    /\ [][DecidesToWait =>
              /\ lk_main \in EndLineOps /\ m_mutex = "main"
              /\ m_processing /\ WorkerHolds /\ ~m_zombie]_vars
    /\ [](pc_main \in {"el_loop", "el_wait"} =>
              (~m_zombie /\ (WorkerHolds \/ ready_signalled)))

\* end_line() waits on the ready event while the worker resolves the
\* request it dequeued.
C36_Witness ==
    /\ pc_main = "el_wait"
    /\ pc_worker = "resolve"
    /\ m_processing
    /\ entry.m_key = "nofile"
    /\ ~ready_signalled
    /\ h_actor = "main"

\* C37: every key of the confirmed and of the pending map lies in arena
\* storage that has not been released; the arena is released only by
\* clear() (called directly or by shutdown()), with the mutex held by the
\* caller and both maps empty afterwards; the worker's emptying of the
\* pending map leaves the arena alone.
C37_KeysNeverDangle ==
    /\ []((DOMAIN m_cache) \cup (DOMAIN m_pending) \subseteq h_stored)
    /\ [][/\ ArenaReleased =>
                /\ lk_main \in {"clear", "shutdown"} /\ m_mutex = "main"
                /\ last'.op \in {"clear", "shutdown"}
                /\ m_cache' = EmptyMap /\ m_pending' = EmptyMap
          /\ WorkerDrained => (m_heap' = m_heap /\ h_stored' = h_stored)]_vars

\* The worker has emptied the pending map: the key of a superseded request
\* is gone from the maps while its storage, and that of the confirmed key,
\* is still in the arena.
C37_Witness ==
    /\ pc_worker = "wait"
    /\ m_pending = EmptyMap
    /\ DOMAIN m_cache = {"nofile"}
    /\ h_stored = {"nofile", "%cmd%"}
    /\ m_heap.m_ptr

\* The faces that stand for the SGR string 'sgr': the earlier ensure_face
\* calls that registered it.
FacesOf(sgr) ==
    {FirstFace + i - 1 : i \in {j \in 1..Len(m_face_definitions) :
                                    m_face_definitions[j] = sgr}}

\* C38: an applycolor call with a colour that an earlier call has registered
\* gets the face of that earlier call and adds no face definition.
C38_EnsureFaceIdempotent ==
    [][(color_calls' = color_calls + 1 /\ FacesOf(color_last'.color) # {}) =>
           /\ m_face_definitions' = m_face_definitions
           /\ color_last'.face \in FacesOf(color_last'.color)]_vars

\* C39: finish() changes the face of a position only if the position still
\* has the unclassified face ' '.
C39_FinishFillsOnlyBlanks ==
    [][finish_last'.op = "finish" =>
           \A i \in 1..m_length :
               m_faces[i] # Blank => m_faces'[i] = m_faces[i]]_vars

\* C40: when mpr.dll or its WNetGetConnectionW export cannot be loaded, a
\* get_net_connection_name call that comes to delay_load_mpr's
\* WNetGetConnectionW gets ERROR_NOT_SUPPORTED from it without a call
\* through the null function pointer, and returns true with an empty output
\* string.
C40_MissingEntryPointIsErrorValue ==
    [][(/\ net_last'.op = "get_net_connection_name"
        /\ net_last'.wrapper
        /\ m_procs' = NullProc) =>
           /\ net_last'.invoked = "none"
           /\ net_last'.err = "ERROR_NOT_SUPPORTED"
           /\ net_last'.ret
           /\ net_out' = ""
           /\ ~net_crashed']_vars
====
